---- MODULE Spec2Model ----
(***************************************************************************)
(* Triangular-arbitrage detector of izyfo: one triangle worker of          *)
(* ArbitrageExecutor::start driving Arbitrage::execute over the three      *)
(* ArbitrageTransaction legs, and the profit channel it feeds.             *)
(*                                                                         *)
(* f32 values are pairs <<n, d>> (the rational n/d, d >= 0, in lowest      *)
(* terms); <<1,0>> and <<-1,0>> are the infinities and <<0,0>> is NaN.     *)
(* Every arithmetic operation rounds its exact result to the nearest       *)
(* value with MantBits significant bits, ties to even, as IEEE-754 does    *)
(* for f32 (whose significand has 24 bits).                                *)
(***************************************************************************)
EXTENDS Integers, Sequences, FiniteSets, TLC

\* ------------------------------------------------------------------------
\* Bounds of the model
\* ------------------------------------------------------------------------

\* significant bits of the modelled f32 significand
MantBits == 5

\* the worker stops receiving once the profit channel holds this many profits
MaxProfits == 1

\* the length the bus is created with (Bus::new(1000) in the executor): the
\* ticks it holds for its slowest receiver
BusLen == 2

\* the feed stops after this many calls of ArbitrageExecutor::execute
MaxBroadcasts == 4

\* the quantities passed to normalize_qty are the f32 values n/16 and n/128
\* for n up to this
MaxGridUnits == 40

\* ------------------------------------------------------------------------
\* f32 arithmetic
\* ------------------------------------------------------------------------

Abs(x) == IF x < 0 THEN -x ELSE x

Sign(x) == IF x < 0 THEN -1 ELSE IF x > 0 THEN 1 ELSE 0

RECURSIVE GCD(_, _)
GCD(a, b) == IF b = 0 THEN a ELSE GCD(b, a % b)

\* the value n/d (d >= 0) in lowest terms
Rat(n, d) ==
    IF d = 0 THEN <<Sign(n), 0>>
    ELSE LET g == GCD(Abs(n), d) IN <<n \div g, d \div g>>

NaN == <<0, 0>>
Zero == <<0, 1>>
One == <<1, 1>>

IsNaN(x) == x[1] = 0 /\ x[2] = 0

\* scale n/d by powers of two into [2^(MantBits-1), 2^MantBits)
RECURSIVE ScaleMant(_, _, _)
ScaleMant(n, d, e) ==
    IF n < d * 2^(MantBits - 1) THEN ScaleMant(2 * n, d, e - 1)
    ELSE IF n >= d * 2^MantBits THEN ScaleMant(n, 2 * d, e + 1)
    ELSE <<n, d, e>>

RoundHalfEven(n, d) ==
    LET q == n \div d
        r == n % d
    IN IF 2 * r < d THEN q
       ELSE IF 2 * r > d THEN q + 1
       ELSE IF q % 2 = 0 THEN q ELSE q + 1

\* the value sign * m * 2^e
F32Value(sign, m, e) ==
    IF e >= 0 THEN Rat(sign * m * 2^e, 1) ELSE Rat(sign * m, 2^(-e))

\* round the scaled significand s = <<n, d, e>> and attach sign and exponent
F32Round(sign, s) == F32Value(sign, RoundHalfEven(s[1], s[2]), s[3])

\* round an exact value to the nearest representable f32
F32(x) ==
    IF x[2] = 0 \/ x[1] = 0 THEN x
    ELSE F32Round(Sign(x[1]), ScaleMant(Abs(x[1]), x[2], 0))

FMul(a, b) == F32(Rat(a[1] * b[1], a[2] * b[2]))

FDiv(a, b) ==
    LET n == a[1] * b[2]
        d == a[2] * b[1]
    IN F32(IF d < 0 THEN Rat(-n, -d) ELSE Rat(n, d))

FSub(a, b) == F32(Rat(a[1] * b[2] - b[1] * a[2], a[2] * b[2]))

FLt(a, b) ==
    /\ ~IsNaN(a)
    /\ ~IsNaN(b)
    /\ IF a[2] = 0 /\ b[2] = 0 THEN a[1] < b[1] ELSE a[1] * b[2] < b[1] * a[2]

FLe(a, b) ==
    /\ ~IsNaN(a)
    /\ ~IsNaN(b)
    /\ IF a[2] = 0 /\ b[2] = 0 THEN a[1] <= b[1] ELSE a[1] * b[2] <= b[1] * a[2]

FGt(a, b) == FLt(b, a)

FFloor(x) == IF x[2] = 0 THEN x ELSE <<x[1] \div x[2], 1>>

FTrunc(x) ==
    IF x[2] = 0 THEN x
    ELSE IF x[1] >= 0 THEN <<x[1] \div x[2], 1>>
    ELSE <<-((-x[1]) \div x[2]), 1>>

\* what floor leaves of the value instead of the floor
RoundDownRemainder(value, p) == FSub(value, FDiv(FFloor(FMul(value, p)), p))

\* math::round_down(value, count): floor(value * 10^count) / 10^count
RoundDownBy(value, p) == FDiv(FFloor(FMul(value, p)), p)

\* 10^count as an f32.  A negative count stands for the usize count + 2^64
\* that a wrapped subtraction leaves, whose power of ten is past every finite
\* f32: +inf
PowTen(count) == IF count < 0 THEN <<1, 0>> ELSE F32(<<10^count, 1>>)

RoundDown(value, count) == RoundDownBy(value, PowTen(count))

\* ------------------------------------------------------------------------
\* ArbitrageTransaction (one leg) and ArbitrageTransactionResult
\* ------------------------------------------------------------------------

\* trade_fee.0 of ArbitrageTransaction::new, an f32
TradeFeeRate == F32(<<1, 1000>>)

\* ArbitrageTransaction::new
NewTransaction(source, target, operation, instrument, exchange_code) ==
    [ name |-> <<source, operation, target>>,
      source |-> source,
      target |-> target,
      operation |-> operation,
      instrument |-> instrument,
      exchange_code |-> exchange_code,
      ask_price |-> Zero,
      bid_price |-> Zero,
      min_price |-> Zero,
      max_price |-> Zero,
      ask_qty |-> Zero,
      bid_qty |-> Zero,
      min_qty |-> Zero,
      max_qty |-> Zero,
      step_size |-> "0",
      tick_size |-> "0",
      tick_timestamp |-> 0,
      trade_fee |-> <<TradeFeeRate, "%">>,
      ready |-> FALSE ]

\* an update that keeps the cached fields when the tick is older than they are
UpdateNewerOnly(t, tick) ==
    IF tick.marketdata_timestamp < t.tick_timestamp
    THEN [ t EXCEPT !.ready = TRUE ]
    ELSE [ t EXCEPT !.ask_price = tick.ask_price,
                    !.bid_price = tick.bid_price,
                    !.min_price = tick.min_price,
                    !.max_price = tick.max_price,
                    !.ask_qty = tick.ask_qty,
                    !.bid_qty = tick.bid_qty,
                    !.min_qty = tick.min_qty,
                    !.max_qty = tick.max_qty,
                    !.step_size = tick.step_size,
                    !.tick_size = tick.tick_size,
                    !.tick_timestamp = tick.marketdata_timestamp,
                    !.ready = TRUE ]

\* an update that sets ready only on a tick whose four checked fields pass
UpdateDemotes(t, tick) ==
    [ t EXCEPT !.ask_price = tick.ask_price,
               !.bid_price = tick.bid_price,
               !.min_price = tick.min_price,
               !.max_price = tick.max_price,
               !.ask_qty = tick.ask_qty,
               !.bid_qty = tick.bid_qty,
               !.min_qty = tick.min_qty,
               !.max_qty = tick.max_qty,
               !.step_size = tick.step_size,
               !.tick_size = tick.tick_size,
               !.tick_timestamp = tick.marketdata_timestamp,
               !.ready = ~(\/ FLe(tick.ask_price, Zero) \/ FLe(tick.bid_price, Zero)
                           \/ FLe(tick.ask_qty, Zero) \/ FLe(tick.bid_qty, Zero)) ]

\* ArbitrageTransaction::update
Update(t, tick) ==
    [ t EXCEPT !.ask_price = tick.ask_price,
               !.bid_price = tick.bid_price,
               !.min_price = tick.min_price,
               !.max_price = tick.max_price,
               !.ask_qty = tick.ask_qty,
               !.bid_qty = tick.bid_qty,
               !.min_qty = tick.min_qty,
               !.max_qty = tick.max_qty,
               !.step_size = tick.step_size,
               !.tick_size = tick.tick_size,
               !.tick_timestamp = tick.marketdata_timestamp,
               !.ready = TRUE ]

\* Ok(true)
Ok == [ ok |-> TRUE ]

\* Err(format!(text, value)): the text with the value printed in it
Err(text, value) == [ ok |-> FALSE, text |-> text, value |-> value ]

\* is_valid without its check of bid_qty
IsValidNoBidQty(t) ==
    IF FLe(t.ask_price, Zero) THEN Err("invalid ask price: ", t.ask_price)
    ELSE IF FLe(t.bid_price, Zero) THEN Err("invalid bid price: ", t.bid_price)
    ELSE IF FLe(t.ask_qty, Zero) THEN Err("invalid bid price: ", t.ask_qty)
    ELSE Ok

\* ArbitrageTransaction::is_valid.  The messages of the bid price, ask qty
\* and bid qty branches all read "invalid bid price"
IsValid(t) ==
    IF FLe(t.ask_price, Zero) THEN Err("invalid ask price: ", t.ask_price)
    ELSE IF FLe(t.bid_price, Zero) THEN Err("invalid bid price: ", t.bid_price)
    ELSE IF FLe(t.ask_qty, Zero) THEN Err("invalid bid price: ", t.ask_qty)
    ELSE IF FLe(t.bid_qty, Zero) THEN Err("invalid bid price: ", t.bid_qty)
    ELSE Ok

\* f32::to_string of a grid value: a grid is carried as its shortest decimal
\* string, which is what Display prints ("NaN" for a NaN)
GridToString(grid) == grid

\* the subtraction len() - 2 of normalize_qty and normalize_price overflows
\* usize: the grid is neither NaN nor 1.0 and prints in fewer than 2 characters
RoundCountOverflows(grid) ==
    grid # "NaN" /\ grid # "1" /\ Len(GridToString(grid)) < 2

\* the grid rounding without the branch of the grid 1.0
NormalizeGridNoUnit(grid, value) ==
    IF grid # "NaN"
    THEN RoundDown(value, Len(GridToString(grid)) - 2)
    ELSE value

\* the grid rounding shared by normalize_qty and normalize_price
NormalizeGrid(grid, value) ==
    IF grid # "NaN"
    THEN IF grid = "1" THEN FTrunc(value)
         ELSE RoundDown(value, Len(GridToString(grid)) - 2)
    ELSE value

\* ArbitrageTransaction::normalize_qty
NormalizeQty(t, qty) == NormalizeGrid(t.step_size, qty)

\* ArbitrageTransaction::normalize_price
NormalizePrice(t, price) == NormalizeGrid(t.tick_size, price)

\* the fields every ArbitrageTransactionResult copies from its leg
ResultOf(t, qty_in, qty_out, qty_to_execute, fee, price, market_qty) ==
    [ name |-> t.name,
      source |-> t.source,
      target |-> t.target,
      instrument |-> t.instrument,
      operation |-> t.operation,
      tick_timestamp |-> t.tick_timestamp,
      qty_in |-> qty_in,
      qty_out |-> qty_out,
      qty_out_r |-> Zero,
      qty_to_execute |-> qty_to_execute,
      fee |-> fee,
      price |-> price,
      step_size |-> t.step_size,
      tick_size |-> t.tick_size,
      min_price |-> t.min_price,
      max_price |-> t.max_price,
      min_qty |-> t.min_qty,
      max_qty |-> t.max_qty,
      exchange_code |-> t.exchange_code,
      market_qty |-> market_qty ]

\* the fee taken on an amount: trade_fee.0 of it when trade_fee.1 is "%"
Fee(t, amount) ==
    IF t.trade_fee[2] = "%" THEN FMul(amount, t.trade_fee[1]) ELSE Zero

\* the BUY result with the bid side of the book as market_qty
BuyResultBidSide(t, qty_in, price, qty_to_execute, fee) ==
    ResultOf(t, qty_in, FSub(qty_to_execute, fee), qty_to_execute, fee, price, t.bid_qty)

\* BUY branch, from the fee on: qty_out and the result
BuyResult(t, qty_in, price, qty_to_execute, fee) ==
    ResultOf(t, qty_in, FSub(qty_to_execute, fee), qty_to_execute, fee, price, t.ask_qty)

\* BUY branch, from qty_to_execute on
BuyQty(t, qty_in, price, qty_to_execute) ==
    BuyResult(t, qty_in, price, qty_to_execute, Fee(t, qty_to_execute))

\* BUY branch, from the normalized price on
BuyAt(t, qty_in, price) ==
    BuyQty(t, qty_in, price, NormalizeQty(t, FDiv(qty_in, price)))

\* ArbitrageTransaction::execute, BUY branch
ExecuteBuy(t, qty_in) == BuyAt(t, qty_in, NormalizePrice(t, t.ask_price))

\* SELL branch, from the fee on: qty_out and the result
SellResult(t, qty_in, price, normalize_qty, gross, fee) ==
    ResultOf(t, qty_in, FSub(gross, fee), normalize_qty, fee, price, t.bid_qty)

\* the SELL branch with the fee taken on the quantity sold
SellGrossFeeOnQty(t, qty_in, price, normalize_qty, gross) ==
    SellResult(t, qty_in, price, normalize_qty, gross, Fee(t, normalize_qty))

\* SELL branch, from the gross proceeds normalize_qty * price on
SellGross(t, qty_in, price, normalize_qty, gross) ==
    SellResult(t, qty_in, price, normalize_qty, gross, Fee(t, gross))

\* SELL branch, from the normalized quantity and price on
SellAt(t, qty_in, price, normalize_qty) ==
    SellGross(t, qty_in, price, normalize_qty, FMul(normalize_qty, price))

\* ArbitrageTransaction::execute, SELL branch
ExecuteSell(t, qty_in) ==
    SellAt(t, qty_in, NormalizePrice(t, t.bid_price), NormalizeQty(t, qty_in))

\* ArbitrageTransaction::execute
TransactionExecute(t, qty_in) ==
    IF t.operation = "BUY" THEN ExecuteBuy(t, qty_in)
    ELSE IF t.operation = "SELL" THEN ExecuteSell(t, qty_in)
    ELSE ResultOf(t, qty_in, qty_in, Zero, Zero, Zero, t.ask_qty)

\* is_valid_ordering without the test of min_qty
ResultIsValidOrderingNoMin(r) ==
    /\ FLe(r.qty_to_execute, r.market_qty)
    /\ FLe(r.qty_to_execute, r.max_qty)

\* ArbitrageTransactionResult::is_valid_ordering
ResultIsValidOrdering(r) ==
    /\ FLe(r.qty_to_execute, r.market_qty)
    /\ FLe(r.min_qty, r.qty_to_execute)
    /\ FLe(r.qty_to_execute, r.max_qty)

\* ------------------------------------------------------------------------
\* ArbitrageProfit
\* ------------------------------------------------------------------------

\* get_profit taken on the last leg alone
GetProfitLastLeg(p) ==
    FSub(p.transaction_result_list[3].qty_out, p.transaction_result_list[3].qty_in)

\* ArbitrageProfit::get_profit
GetProfit(p) ==
    FSub(p.transaction_result_list[3].qty_out, p.transaction_result_list[1].qty_in)

\* ArbitrageProfit::is_valid_ordering
ProfitIsValidOrdering(p) ==
    \A i \in 1..Len(p.transaction_result_list) :
        ResultIsValidOrdering(p.transaction_result_list[i])

\* ------------------------------------------------------------------------
\* Arbitrage (one triangle)
\* ------------------------------------------------------------------------

\* Arbitrage::from_transaction_list, the transaction_list it builds
FromTransactionList(transaction_hash_list) ==
    [ i \in 1..Len(transaction_hash_list) |->
        NewTransaction(transaction_hash_list[i].source,
                       transaction_hash_list[i].target,
                       transaction_hash_list[i].operation,
                       transaction_hash_list[i].instrument,
                       transaction_hash_list[i].exchange_code) ]

\* Arbitrage::from_transaction_list, the instrument_list it builds
\* (first-seen order, no duplicates)
RECURSIVE InstrumentListFrom(_, _, _)
InstrumentListFrom(tl, i, acc) ==
    IF i > Len(tl) THEN acc
    ELSE InstrumentListFrom(tl, i + 1,
            IF \E k \in 1..Len(acc) : acc[k] = tl[i].instrument
            THEN acc ELSE Append(acc, tl[i].instrument))

InstrumentList(tl) == InstrumentListFrom(tl, 1, <<>>)

\* Arbitrage::execute, the loop over transaction_list: leg i is updated when
\* the tick is for its instrument, then executed when it is valid
RECURSIVE TransactionLoop(_, _, _, _, _)
RECURSIVE TransactionLoopPush(_, _, _, _, _)
\* a loop that updates every leg with the tick, whatever its instrument
TransactionLoopEveryLeg(tl, market_bbo, i, qty_in, acc) ==
    IF i > Len(tl) THEN [ transaction_list |-> tl, results |-> acc ]
    ELSE LET t == Update(tl[i], market_bbo)
             tl2 == [ tl EXCEPT ![i] = t ]
         IN IF IsValid(t).ok
            THEN TransactionLoopPush(tl2, market_bbo, i, TransactionExecute(t, qty_in), acc)
            ELSE TransactionLoop(tl2, market_bbo, i + 1, qty_in, acc)

TransactionLoop(tl, market_bbo, i, qty_in, acc) ==
    IF i > Len(tl) THEN [ transaction_list |-> tl, results |-> acc ]
    ELSE LET t == IF tl[i].instrument = market_bbo.instrument
                  THEN Update(tl[i], market_bbo) ELSE tl[i]
             tl2 == [ tl EXCEPT ![i] = t ]
         IN IF IsValid(t).ok
            THEN TransactionLoopPush(tl2, market_bbo, i, TransactionExecute(t, qty_in), acc)
            ELSE TransactionLoop(tl2, market_bbo, i + 1, qty_in, acc)

\* the loop handing the next leg the qty_in of leg i instead of its qty_out
TransactionLoopPushNoChain(tl, market_bbo, i, r, acc) ==
    TransactionLoop(tl, market_bbo, i + 1, r.qty_in, Append(acc, r))

\* the loop after leg i produced result r: r is pushed and its qty_out is the
\* qty_in of the next leg
TransactionLoopPush(tl, market_bbo, i, r, acc) ==
    TransactionLoop(tl, market_bbo, i + 1, r.qty_out, Append(acc, r))

\* Arbitrage::execute, ratio_list: one ratio per result not valid for ordering
RECURSIVE RatioList(_, _)
RatioList(results, i) ==
    IF i > Len(results) THEN <<>>
    ELSE IF ~ResultIsValidOrdering(results[i])
         THEN <<FDiv(results[i].qty_to_execute, results[i].market_qty)>>
              \o RatioList(results, i + 1)
         ELSE RatioList(results, i + 1)

\* Arbitrage::execute, max_value: the fold of ratio_list from 0.0
RECURSIVE MaxValue(_, _, _)
MaxValue(ratio_list, i, max) ==
    IF i > Len(ratio_list) THEN max
    ELSE MaxValue(ratio_list, i + 1, IF FGt(ratio_list[i], max) THEN ratio_list[i] ELSE max)

\* Arbitrage::execute, the test that starts the rescaled pass
NeedsRescale(max_value) == FGt(max_value, One)

\* the recursive call made with the caller's own scale
RescaleFlagKept(scale) == scale

\* Arbitrage::execute, the scale argument of the recursive call
RescaleFlag(scale) == FALSE

\* the recursive call made with the unscaled quantity
QtyInitialUnscaled(qty_initial, max_value) == qty_initial

\* the recursive call made with the quantity scaled the wrong way
QtyInitialScaledUp(qty_initial, max_value) == FMul(qty_initial, max_value)

\* Arbitrage::execute, the qty_initial of the recursive call
QtyInitialScaled(qty_initial, max_value) == FDiv(qty_initial, max_value)

\* the ArbitrageProfit built by Arbitrage::execute (create_at and uuid, a
\* clock reading and a random value, are left out)
NewProfit(tl, results, market_bbo) ==
    [ name |-> [ i \in 1..Len(tl) |-> tl[i].name ],
      transaction_result_list |-> results,
      tick_timestamp |-> market_bbo.marketdata_timestamp,
      tick_received_timestamp_ms |-> market_bbo.created_timestamp_ms ]

\* Arbitrage::execute.  Returns the transaction_list it leaves behind, the
\* returned Option (<<>> for None, <<p>> for Some(p)) and the passes it ran,
\* outermost first.
RECURSIVE ArbitrageExecute(_, _, _, _)
RECURSIVE ExecuteScale(_, _, _, _, _)
RECURSIVE ExecuteResults(_, _, _, _)

\* the record of one pass of Arbitrage::execute
Pass(loop, qty_initial, scale) ==
    [ qty_initial |-> qty_initial, scale |-> scale, results |-> loop.results ]

\* a pass that returns None
ReturnNone(loop, qty_initial, scale) ==
    [ transaction_list |-> loop.transaction_list,
      ret |-> <<>>,
      passes |-> <<Pass(loop, qty_initial, scale)>> ]

\* the pass that precedes the recursive call, put in front of the passes of rec
ReturnRec(loop, qty_initial, scale, rec) ==
    [ rec EXCEPT !.passes = <<Pass(loop, qty_initial, scale)>> \o rec.passes ]

ArbitrageExecute(tl, market_bbo, qty_initial, scale) ==
    ExecuteResults(TransactionLoop(tl, market_bbo, 1, qty_initial, <<>>),
                   market_bbo, qty_initial, scale)

\* Arbitrage::execute after the loop over transaction_list
ExecuteResults(loop, market_bbo, qty_initial, scale) ==
    IF Len(loop.results) = 3
    THEN IF scale
         THEN ExecuteScale(loop, market_bbo, qty_initial, scale,
                           MaxValue(RatioList(loop.results, 1), 1, Zero))
         ELSE [ transaction_list |-> loop.transaction_list,
                ret |-> <<NewProfit(loop.transaction_list, loop.results, market_bbo)>>,
                passes |-> <<Pass(loop, qty_initial, scale)>> ]
    ELSE ReturnNone(loop, qty_initial, scale)

\* Arbitrage::execute, the scale branch once max_value is known
ExecuteScale(loop, market_bbo, qty_initial, scale, max_value) ==
    IF NeedsRescale(max_value)
    THEN ReturnRec(loop, qty_initial, scale,
                   ArbitrageExecute(loop.transaction_list, market_bbo,
                                    QtyInitialScaled(qty_initial, max_value),
                                    RescaleFlag(scale)))
    ELSE ReturnNone(loop, qty_initial, scale)

\* ------------------------------------------------------------------------
\* Inputs: the topology of the worker and the ticks of the market feed
\* ------------------------------------------------------------------------

\* one entry of ArbitrageExecutor::transactions_list
Transaction(source, target, operation, instrument, exchange_code) ==
    [ source |-> source, target |-> target, operation |-> operation,
      instrument |-> instrument, exchange_code |-> exchange_code ]

\* ArbitrageExecutor::transactions_list as initialize builds it for exchange
\* BINANCE, start asset BTC, symbols BTC, ETH, USDT and the instruments
\* BINANCE_BTC_USDT, BINANCE_ETH_USDT, BINANCE_ETH_BTC
TransactionsList ==
    << << Transaction("BINANCE_BTC", "BINANCE_ETH", "BUY", "BINANCE_ETH_BTC", "ETHBTC"),
          Transaction("BINANCE_ETH", "BINANCE_USDT", "SELL", "BINANCE_ETH_USDT", "ETHUSDT"),
          Transaction("BINANCE_USDT", "BINANCE_BTC", "BUY", "BINANCE_BTC_USDT", "BTCUSDT") >>,
       << Transaction("BINANCE_BTC", "BINANCE_USDT", "SELL", "BINANCE_BTC_USDT", "BTCUSDT"),
          Transaction("BINANCE_USDT", "BINANCE_ETH", "BUY", "BINANCE_ETH_USDT", "ETHUSDT"),
          Transaction("BINANCE_ETH", "BINANCE_BTC", "SELL", "BINANCE_ETH_BTC", "ETHBTC") >> >>

\* ------------------------------------------------------------------------
\* ArbitrageExecutor::initialize (the topology of triangles)
\* ------------------------------------------------------------------------

\* format!("{}_{}", exchange, symbol)
AssetId(exchange, symbol) == exchange \o "_" \o symbol

\* format!("{}_{}_{}", exchange, symbol_a, symbol_b)
InstrumentId(exchange, symbol_a, symbol_b) ==
    exchange \o "_" \o symbol_a \o "_" \o symbol_b

\* format!("{}{}", symbol_a, symbol_b)
ExchangeCode(symbol_a, symbol_b) == symbol_a \o symbol_b

\* symbol_list.iter().combinations(3): the triples of positions i < j < k in
\* lexicographic order
RECURSIVE CombinationsFrom(_, _, _, _)
CombinationsFrom(symbol_list, i, j, k) ==
    IF i > Len(symbol_list) - 2 THEN <<>>
    ELSE IF j > Len(symbol_list) - 1 THEN CombinationsFrom(symbol_list, i + 1, i + 2, i + 3)
    ELSE IF k > Len(symbol_list) THEN CombinationsFrom(symbol_list, i, j + 1, j + 2)
    ELSE << <<symbol_list[i], symbol_list[j], symbol_list[k]>> >>
         \o CombinationsFrom(symbol_list, i, j, k + 1)

Combinations(symbol_list) == CombinationsFrom(symbol_list, 1, 2, 3)

\* the permutations without the mirror of the first
PermutationsOfNoMirror(c) ==
    << <<c[1], c[2], c[3]>>,
       <<c[2], c[1], c[3]>>,
       <<c[2], c[3], c[1]>>,
       <<c[3], c[1], c[2]>>,
       <<c[3], c[2], c[1]>> >>

\* the six permutations of a combination, in the order initialize lists them
PermutationsOf(c) ==
    << <<c[1], c[2], c[3]>>,
       <<c[1], c[3], c[2]>>,
       <<c[2], c[1], c[3]>>,
       <<c[2], c[3], c[1]>>,
       <<c[3], c[1], c[2]>>,
       <<c[3], c[2], c[1]>> >>

\* the filter on the second symbol instead of the first
IsStartSecond(p, start_asset) == p[2] = start_asset

\* the filter symbol_1 == start_asset
IsStart(p, start_asset) == p[1] = start_asset

\* the sides of the two branches exchanged
ResolveSwapped(exchange, database_instrument_list, symbol_a, symbol_b) ==
    IF InstrumentId(exchange, symbol_a, symbol_b) \in database_instrument_list
    THEN << Transaction(AssetId(exchange, symbol_a), AssetId(exchange, symbol_b), "BUY",
                        InstrumentId(exchange, symbol_a, symbol_b),
                        ExchangeCode(symbol_a, symbol_b)) >>
    ELSE IF InstrumentId(exchange, symbol_b, symbol_a) \in database_instrument_list
    THEN << Transaction(AssetId(exchange, symbol_a), AssetId(exchange, symbol_b), "SELL",
                        InstrumentId(exchange, symbol_b, symbol_a),
                        ExchangeCode(symbol_b, symbol_a)) >>
    ELSE <<>>

\* one transaction of a permutation, from symbol_a to symbol_b: <<t>>, or <<>>
\* when neither instrument is in the database list (the break)
Resolve(exchange, database_instrument_list, symbol_a, symbol_b) ==
    IF InstrumentId(exchange, symbol_a, symbol_b) \in database_instrument_list
    THEN << Transaction(AssetId(exchange, symbol_a), AssetId(exchange, symbol_b), "SELL",
                        InstrumentId(exchange, symbol_a, symbol_b),
                        ExchangeCode(symbol_a, symbol_b)) >>
    ELSE IF InstrumentId(exchange, symbol_b, symbol_a) \in database_instrument_list
    THEN << Transaction(AssetId(exchange, symbol_a), AssetId(exchange, symbol_b), "BUY",
                        InstrumentId(exchange, symbol_b, symbol_a),
                        ExchangeCode(symbol_b, symbol_a)) >>
    ELSE <<>>

\* transaction_1, transaction_2, transaction_3 of permutation p
Edges(exchange, database_instrument_list, p) ==
    << Resolve(exchange, database_instrument_list, p[1], p[2]),
       Resolve(exchange, database_instrument_list, p[2], p[3]),
       Resolve(exchange, database_instrument_list, p[3], p[1]) >>

\* some transaction of the permutation met the break
Broken(edges) == \E i \in 1..3 : edges[i] = <<>>

\* the check against the reference data left out
InReferencedataAny(referencedata_instrument_list, edges) == TRUE

\* the three instruments are in the reference data
InReferencedata(referencedata_instrument_list, edges) ==
    \A i \in 1..3 : edges[i][1].instrument \in referencedata_instrument_list

\* the loop over the permutations of one combination; acc is transactions_list
RECURSIVE PermutationLoop(_, _, _, _)
RECURSIVE PermutationPush(_, _, _, _, _)
PermutationLoop(cfg, permutations, i, acc) ==
    IF i > Len(permutations) THEN acc
    ELSE IF IsStart(permutations[i], cfg.start_asset)
         THEN PermutationPush(cfg, permutations, i, acc,
                  Edges(cfg.exchange, cfg.database_instrument_list, permutations[i]))
         ELSE PermutationLoop(cfg, permutations, i + 1, acc)

\* the body of the loop once the three transactions are resolved: a break
\* leaves the loop, the reference data decide the push
PermutationPush(cfg, permutations, i, acc, edges) ==
    IF Broken(edges) THEN acc
    ELSE IF InReferencedata(cfg.referencedata_instrument_list, edges)
         THEN PermutationLoop(cfg, permutations, i + 1,
                  Append(acc, <<edges[1][1], edges[2][1], edges[3][1]>>))
         ELSE PermutationLoop(cfg, permutations, i + 1, acc)

\* the loop over the combinations
RECURSIVE CombinationLoop(_, _, _, _)
CombinationLoop(cfg, combinations, k, acc) ==
    IF k > Len(combinations) THEN acc
    ELSE CombinationLoop(cfg, combinations, k + 1,
             PermutationLoop(cfg, PermutationsOf(combinations[k]), 1, acc))

\* ArbitrageExecutor::initialize: the transactions_list it leaves
Initialize(cfg, transactions_list) ==
    CombinationLoop(cfg, Combinations(cfg.symbol_list), 1, transactions_list)

\* instruments the feed ticks on: the three of the topology and one outside it
FeedInstruments ==
    { "BINANCE_BTC_USDT", "BINANCE_ETH_USDT", "BINANCE_ETH_BTC", "BINANCE_LTC_BTC" }

\* the market fields of a tick: ask/bid price, ask/bid qty, min/max qty, grids
Market(ask_price, bid_price, ask_qty, bid_qty, min_qty, max_qty, step_size, tick_size, ts) ==
    [ ask_price |-> ask_price, bid_price |-> bid_price,
      ask_qty |-> ask_qty, bid_qty |-> bid_qty,
      min_qty |-> min_qty, max_qty |-> max_qty,
      min_price |-> <<1, 8>>, max_price |-> <<16, 1>>,
      step_size |-> step_size, tick_size |-> tick_size,
      marketdata_timestamp |-> ts, created_timestamp_ms |-> 1000 * ts + 1 ]

Deep == <<8, 1>>

NoMin == Zero

Max == <<16, 1>>

\* the market states the feed reports for BINANCE_BTC_USDT
MarketBtcUsdt ==
    { \* deep book, no grids
      Market(One, One, Deep, Deep, NoMin, Max, "NaN", "NaN", 1),
      \* shallow book
      Market(<<2, 1>>, <<2, 1>>, <<1, 2>>, <<1, 2>>, NoMin, Max, "NaN", "NaN", 2),
      \* depth 11/4
      Market(One, One, <<11, 4>>, <<11, 4>>, NoMin, Max, "NaN", "NaN", 3),
      \* bid 15/16 below the ask, bid depth below ask depth
      Market(One, <<15, 16>>, Deep, <<4, 1>>, NoMin, Max, "NaN", "NaN", 4),
      \* malformed: ask price 0
      Market(Zero, One, Deep, Deep, NoMin, Max, "NaN", "NaN", 5) }

\* the market states the feed reports for BINANCE_ETH_USDT
MarketEthUsdt ==
    { Market(One, One, Deep, Deep, NoMin, Max, "NaN", "NaN", 1),
      \* ask 2
      Market(<<2, 1>>, One, Deep, Deep, NoMin, Max, "NaN", "NaN", 2),
      \* whole-unit step, depth 3/2
      Market(One, One, <<3, 2>>, <<3, 2>>, NoMin, Max, "1", "NaN", 3),
      \* malformed: bid qty 0
      Market(One, One, Deep, Zero, NoMin, Max, "NaN", "NaN", 4),
      \* step size 0, printed "0"
      Market(One, One, Deep, Deep, NoMin, Max, "0", "NaN", 5) }

\* the market states the feed reports for BINANCE_ETH_BTC
MarketEthBtc ==
    { Market(One, One, Deep, Deep, NoMin, Max, "NaN", "NaN", 1),
      \* min_qty 4
      Market(One, One, Deep, Deep, <<4, 1>>, Max, "NaN", "NaN", 2),
      \* bid 1/2
      Market(One, <<1, 2>>, Deep, Deep, NoMin, Max, "NaN", "NaN", 3),
      \* step 0.1 and whole-unit tick, under which the price 1/2 rounds to 0
      Market(<<1, 2>>, <<1, 2>>, <<1, 4>>, <<4, 1>>, NoMin, Max, "0.1", "1", 4) }

\* the market states the feed reports for BINANCE_LTC_BTC
MarketLtcBtc ==
    { Market(One, One, Deep, Deep, NoMin, Max, "NaN", "NaN", 1) }

\* the market states the feed reports for an instrument
MarketSet(instrument) ==
    CASE instrument = "BINANCE_BTC_USDT" -> MarketBtcUsdt
      [] instrument = "BINANCE_ETH_USDT" -> MarketEthUsdt
      [] instrument = "BINANCE_ETH_BTC" -> MarketEthBtc
      [] OTHER -> MarketLtcBtc

\* the MarketBBO ticks a worker can receive
MarketBBOSet ==
    UNION { { [ instrument |-> i ] @@ m : m \in MarketSet(i) } : i \in FeedInstruments }

\* MarketBBO::get_feed
GetFeed(market_bbo) == market_bbo.instrument

\* qty_in values the executor is configured with
QtyInSet == { One, <<3, 1>> }

\* ------------------------------------------------------------------------
\* State
\* ------------------------------------------------------------------------

VARIABLES
    ordering,           \* ArbitrageExecutor::ordering
    qty_initial,        \* c_qty_in of the worker
    transaction_list,   \* Arbitrage::transaction_list of the worker's triangle
    received,           \* the tick last received: <<>> or <<market_bbo>>
    call,               \* the call of Arbitrage::execute made on it: <<>> or <<c>>
    profit_channel,     \* the profits sent on arbitrage_profit_sender, oldest first
    config,             \* exchange, start_asset, symbol_list and the two instrument lists
    initialized,        \* ArbitrageExecutor::initialize has run
    transactions_list,  \* ArbitrageExecutor::transactions_list
    overflow_checks,    \* the build's integer overflow checks: "on", "off", or
                        \* "unset" while no overflow has shown which
    panicked,           \* the thread has panicked
    market_bbo_bus,     \* ArbitrageExecutor::market_bbo_bus
    workers,            \* the spawned workers: receiver, triangle, ticks received
    broadcasts,         \* every tick passed to ArbitrageExecutor::execute, oldest first
    valid_message,      \* the results of is_valid on the legs: <<>> before the calls
    qty_in,             \* ArbitrageExecutor::qty_in
    balance,            \* get_balance(start_asset) after update_balances: <<>> (None)
                        \* or <<b>> (Some(b))
    arbitrage_ordering, \* the thread of ArbitrageOrdering::start and what it spawned
    sleep_between_transactions,
                        \* env::var("SLEEP_BETWEEN_TRANSACTIONS"): <<>> (Err) or <<s>>
    normalized          \* the calls of normalize_qty made on a leg, oldest first

workerVars == <<ordering, qty_initial, transaction_list, received, call, profit_channel>>

topologyVars == <<config, initialized, transactions_list>>

buildVars == <<overflow_checks, panicked>>

busVars == <<market_bbo_bus, workers, broadcasts>>

startVars == <<qty_in, balance>>

orderingVars == <<arbitrage_ordering, sleep_between_transactions>>

vars == <<workerVars, topologyVars, buildVars, busVars, valid_message, startVars,
          orderingVars, normalized>>

\* the inputs of initialize behind TransactionsList
StandardConfig ==
    [ exchange |-> "BINANCE",
      start_asset |-> "BTC",
      symbol_list |-> <<"BTC", "ETH", "USDT">>,
      database_instrument_list |->
          { "BINANCE_BTC_USDT", "BINANCE_ETH_USDT", "BINANCE_ETH_BTC" },
      referencedata_instrument_list |->
          { "BINANCE_BTC_USDT", "BINANCE_ETH_USDT", "BINANCE_ETH_BTC" } ]

\* Bus::new(BusLen): a ring of BusLen + 1 empty slots, nothing written, not
\* closed (a Bus is closed when it is dropped)
NewBus == [ ring |-> [ i \in 1..(BusLen + 1) |-> <<>> ], tail |-> 0, closed |-> FALSE ]

\* ArbitrageOrdering::new and the first lines of start, in the thread spawned
\* by ArbitrageExecutor::start: the thread waits in recv, the thread counter
\* is 0 and its mutex free, nothing spawned, nothing submitted
NewOrdering ==
    [ pc |-> "recv",
      arbitrage_profit |-> <<>>,
      t |-> 0,
      mutex |-> "free",
      poisoned |-> FALSE,
      thread_counter |-> 0,
      children |-> <<>>,
      sleeps |-> <<>>,
      taken |-> 0,
      skipped |-> 0 ]

\* the account the executor reads no balance from: get_balance returns None
\* and start keeps the configured qty_in
NoBalance ==
    /\ qty_in = qty_initial
    /\ balance = <<>>

\* the environment without SLEEP_BETWEEN_TRANSACTIONS: env::var returns Err
Unset == sleep_between_transactions = <<>>

\* ArbitrageExecutor::new and initialize
InitExecutor ==
    /\ config = StandardConfig
    /\ initialized = TRUE
    /\ transactions_list = TransactionsList
    /\ overflow_checks = "unset"
    /\ panicked = FALSE
    /\ market_bbo_bus = NewBus
    /\ workers = <<>>
    /\ broadcasts = <<>>
    /\ valid_message = <<>>
    /\ arbitrage_ordering = NewOrdering
    /\ normalized = <<>>

\* ArbitrageExecutor::new and start, up to the spawn of the worker
Init ==
    /\ ordering \in BOOLEAN
    /\ qty_initial \in QtyInSet
    /\ \E k \in 1..Len(TransactionsList) :
          transaction_list = FromTransactionList(TransactionsList[k])
    /\ received = <<>>
    /\ call = <<>>
    /\ profit_channel = <<>>
    /\ NoBalance
    /\ Unset
    /\ InitExecutor

\* the send test without the ordering flag
ShouldSendAnyOrdering(p) ==
    /\ FGt(GetProfit(p), Zero)
    /\ ProfitIsValidOrdering(p)

\* the send test without the profit test
ShouldSendAnyProfit(p) ==
    /\ ordering
    /\ ProfitIsValidOrdering(p)

\* the send test without the validity test
ShouldSendAnyValidity(p) ==
    /\ FGt(GetProfit(p), Zero)
    /\ ordering

\* the receiving side of the profit channel is alive: the receivers of start
\* are dropped when start returns, the one left is owned by the thread of
\* ArbitrageOrdering::start and dropped when that thread panics
Connected == arbitrage_ordering.pc # "panicked"

\* a send that queues the profit with no receiver left
ChannelSendQueues(channel, p) == Append(channel, p)

\* Sender::send on the unbounded profit channel: the profit is queued while a
\* receiver is alive; without one send returns Err, which the worker ignores
ChannelSend(channel, p) == IF Connected THEN Append(channel, p) ELSE channel

\* the test under which the worker sends a profit
ShouldSend(p) ==
    /\ FGt(GetProfit(p), Zero)
    /\ ordering
    /\ ProfitIsValidOrdering(p)

\* the routing test looking at the first instrument only
RoutedFirstOnly(tl, market_bbo) == InstrumentList(tl)[1] = GetFeed(market_bbo)

\* the test under which the worker hands a tick to its triangle
Routed(tl, market_bbo) ==
    \E k \in 1..Len(InstrumentList(tl)) : InstrumentList(tl)[k] = GetFeed(market_bbo)

\* a leg as the loop of Arbitrage::execute sees it on a tick
Ticked(t, market_bbo) ==
    IF t.instrument = market_bbo.instrument THEN Update(t, market_bbo) ELSE t

\* ArbitrageTransaction::execute of leg t reaches an overflowing len() - 2:
\* the BUY and SELL branches both call normalize_qty and normalize_price
LegOverflows(t) ==
    /\ t.operation \in { "BUY", "SELL" }
    /\ RoundCountOverflows(t.step_size) \/ RoundCountOverflows(t.tick_size)

\* the legs the loop of Arbitrage::execute executes on a tick and whose
\* execute overflows
OverflowingLegs(tl, market_bbo) ==
    { i \in 1..Len(tl) : /\ IsValid(Ticked(tl[i], market_bbo)).ok
                         /\ LegOverflows(Ticked(tl[i], market_bbo)) }

\* Arbitrage::execute cut short by the panic of leg k: the legs before k went
\* through the loop, leg k took the tick, the legs after k were not reached
PanickedExecute(tl, market_bbo, qty, scale, k) ==
    [ transaction_list |->
          TransactionLoop(SubSeq(tl, 1, k - 1), market_bbo, 1, qty, <<>>).transaction_list
              \o << Ticked(tl[k], market_bbo) >> \o SubSeq(tl, k + 1, Len(tl)),
      ret |-> <<>>,
      passes |-> << Pass(TransactionLoop(SubSeq(tl, 1, k - 1), market_bbo, 1, qty, <<>>),
                         qty, scale) >>,
      overflow_checks |-> "on",
      panicked |-> TRUE ]

\* the least element of a set of numbers
Least(S) == CHOOSE k \in S : \A j \in S : k <= j

\* the builds an overflow can show: the one already seen, else either
Builds == IF overflow_checks = "unset" THEN { "on", "off" } ELSE { overflow_checks }

\* the outcomes of a call of Arbitrage::execute.  An overflow of len() - 2
\* panics under overflow checks and wraps without them.
ExecuteOutcomes(tl, market_bbo, qty, scale) ==
    IF OverflowingLegs(tl, market_bbo) = {}
    THEN { ArbitrageExecute(tl, market_bbo, qty, scale)
               @@ [ overflow_checks |-> overflow_checks, panicked |-> FALSE ] }
    ELSE { IF checks = "on"
           THEN PanickedExecute(tl, market_bbo, qty, scale,
                                Least(OverflowingLegs(tl, market_bbo)))
           ELSE ArbitrageExecute(tl, market_bbo, qty, scale)
                    @@ [ overflow_checks |-> "off", panicked |-> FALSE ]
           : checks \in Builds }

\* one iteration of the worker loop of ArbitrageExecutor::start on the
\* received tick market_bbo
WorkerLoop(market_bbo) ==
    /\ ~panicked
    /\ Len(profit_channel) < MaxProfits
    /\ received' = <<market_bbo>>
    /\ IF Routed(transaction_list, market_bbo)
       THEN \E r \in ExecuteOutcomes(transaction_list, market_bbo, qty_initial, TRUE) :
               /\ transaction_list' = r.transaction_list
               /\ call' = << [ passes |-> r.passes, ret |-> r.ret ] >>
               /\ profit_channel' =
                      IF r.ret # <<>> /\ ShouldSend(r.ret[1])
                      THEN ChannelSend(profit_channel, r.ret[1])
                      ELSE profit_channel
               /\ overflow_checks' = r.overflow_checks
               /\ panicked' = r.panicked
       ELSE /\ call' = <<>>
            /\ UNCHANGED <<transaction_list, profit_channel, buildVars>>
    /\ UNCHANGED <<ordering, qty_initial, topologyVars, busVars, valid_message,
                   startVars, orderingVars, normalized>>

Next == \E market_bbo \in MarketBBOSet : WorkerLoop(market_bbo)

Spec == Init /\ [][Next]_vars

\* a direct call of the public Arbitrage::execute on the triangle, with any
\* tick and either value of scale
ExecuteCall(market_bbo, scale) ==
    /\ ~panicked
    /\ received' = <<market_bbo>>
    /\ \E r \in ExecuteOutcomes(transaction_list, market_bbo, qty_initial, scale) :
          /\ transaction_list' = r.transaction_list
          /\ call' = << [ passes |-> r.passes, ret |-> r.ret ] >>
          /\ overflow_checks' = r.overflow_checks
          /\ panicked' = r.panicked
    /\ UNCHANGED <<ordering, qty_initial, profit_channel, topologyVars, busVars,
                   valid_message, startVars, orderingVars, normalized>>

InitArb == Init /\ ordering = FALSE

NextArb == \E market_bbo \in MarketBBOSet, scale \in BOOLEAN : ExecuteCall(market_bbo, scale)

SpecArb == InitArb /\ [][NextArb]_vars

\* ------------------------------------------------------------------------
\* The executor before start: ArbitrageExecutor::new, then initialize
\* ------------------------------------------------------------------------

\* symbol lists the executor is built with (distinct symbols)
SymbolLists ==
    { <<"BTC", "ETH">>,
      <<"BTC", "ETH", "USDT">>,
      <<"ETH", "USDT", "BTC", "LTC">>,
      <<"LTC", "BTC", "USDT", "ETH">> }

\* start assets the executor is built with; XRP is in no symbol list
StartAssets == { "BTC", "ETH", "XRP" }

\* the instruments the two lists are drawn from; ETH/BTC is listed both ways
CandidateInstruments ==
    { "BINANCE_BTC_USDT", "BINANCE_ETH_USDT", "BINANCE_ETH_BTC", "BINANCE_BTC_ETH",
      "BINANCE_LTC_BTC", "BINANCE_LTC_USDT", "BINANCE_LTC_ETH" }

\* the instrument lists of the reference data
ReferencedataLists ==
    { CandidateInstruments,
      CandidateInstruments \ { "BINANCE_ETH_USDT" },
      CandidateInstruments \ { "BINANCE_BTC_ETH" } }

\* the inputs initialize runs on
ConfigSet ==
    [ exchange : { "BINANCE" },
      start_asset : StartAssets,
      symbol_list : SymbolLists,
      database_instrument_list : SUBSET CandidateInstruments,
      referencedata_instrument_list : ReferencedataLists ]

\* ArbitrageExecutor::new
InitTopology ==
    /\ config \in ConfigSet
    /\ initialized = FALSE
    /\ transactions_list = <<>>
    /\ ordering = FALSE
    /\ qty_initial = One
    /\ transaction_list = <<>>
    /\ received = <<>>
    /\ call = <<>>
    /\ profit_channel = <<>>
    /\ overflow_checks = "unset"
    /\ panicked = FALSE
    /\ market_bbo_bus = NewBus
    /\ workers = <<>>
    /\ broadcasts = <<>>
    /\ valid_message = <<>>
    /\ NoBalance
    /\ Unset
    /\ arbitrage_ordering = NewOrdering
    /\ normalized = <<>>

\* the call of ArbitrageExecutor::initialize
InitializeCall ==
    /\ ~initialized
    /\ initialized' = TRUE
    /\ transactions_list' = Initialize(config, transactions_list)
    /\ UNCHANGED <<config, workerVars, buildVars, busVars, valid_message, startVars,
                   orderingVars, normalized>>

NextTopology == InitializeCall

SpecTopology == InitTopology /\ [][NextTopology]_vars

\* ------------------------------------------------------------------------
\* The executor and its workers on the bus: start, execute, the worker loops
\* ------------------------------------------------------------------------

\* the ticks the feed passes to ArbitrageExecutor::execute: one of an
\* instrument the triangles hold, one of an instrument they do not hold
BusTicks ==
    { [ instrument |-> i ] @@ Market(One, One, Deep, Deep, NoMin, Max, "NaN", "NaN", 1)
        : i \in { "BINANCE_BTC_USDT", "BINANCE_LTC_BTC" } }

\* the slot of the ring that holds tick number n (counted from 0)
Slot(n) == (n % (BusLen + 1)) + 1

\* a broadcast never waits
BusNeverFull(bus, rx) == FALSE

\* a broadcast waits one tick too late
BusFullLate(bus, rx) == bus.tail - rx.head > BusLen

\* Bus::broadcast has to wait for receiver rx: rx has BusLen unread ticks
BusFull(bus, rx) == bus.tail - rx.head >= BusLen

\* every worker built on the first triangle
NewWorkerFirstTriangle(k) ==
    [ head |-> market_bbo_bus.tail,
      subscribed_at |-> market_bbo_bus.tail,
      transaction_list |-> FromTransactionList(transactions_list[1]),
      log |-> <<>>,
      panicked |-> FALSE ]

\* Bus::add_rx and the spawn of the worker of triangle k: the receiver starts
\* at the tail of the bus
NewWorker(k) ==
    [ head |-> market_bbo_bus.tail,
      subscribed_at |-> market_bbo_bus.tail,
      transaction_list |-> FromTransactionList(transactions_list[k]),
      log |-> <<>>,
      panicked |-> FALSE ]

\* ArbitrageExecutor::new, initialize, and the values start works with
InitBus ==
    /\ ordering \in BOOLEAN
    /\ qty_initial = One
    /\ transaction_list = <<>>
    /\ received = <<>>
    /\ call = <<>>
    /\ profit_channel = <<>>
    /\ NoBalance
    /\ Unset
    /\ InitExecutor

\* the qty_initial ArbitrageExecutor::start hands to the workers: qty_in, or,
\* with ordering on and a positive balance b of the start asset, b / 3.0
StartQty(qty, with_ordering, b) ==
    IF with_ordering /\ b # <<>> /\ FGt(b[1], Zero)
    THEN FDiv(b[1], <<3, 1>>)
    ELSE qty

\* ArbitrageExecutor::start: the qty_initial of the workers, then one receiver
\* and one worker per triangle
Start ==
    /\ workers = <<>>
    /\ qty_initial' = StartQty(qty_in, ordering, balance)
    /\ workers' = [ k \in 1..Len(transactions_list) |-> NewWorker(k) ]
    /\ UNCHANGED <<ordering, transaction_list, received, call, profit_channel,
                   topologyVars, buildVars, market_bbo_bus, broadcasts, valid_message,
                   startVars, orderingVars, normalized>>

\* ArbitrageExecutor::execute: Bus::broadcast, which waits while a receiver
\* has BusLen unread ticks
Broadcast(market_bbo) ==
    /\ Len(broadcasts) < MaxBroadcasts
    /\ ~market_bbo_bus.closed
    /\ \A w \in 1..Len(workers) : ~BusFull(market_bbo_bus, workers[w])
    /\ market_bbo_bus' =
          [ market_bbo_bus EXCEPT !.ring[Slot(market_bbo_bus.tail)] = <<market_bbo>>,
                                  !.tail = @ + 1 ]
    /\ broadcasts' = Append(broadcasts, market_bbo)
    /\ UNCHANGED <<workerVars, topologyVars, buildVars, workers, valid_message,
                   startVars, orderingVars, normalized>>

\* the worker after one iteration of its loop on tick market_bbo with the
\* outcome r of Arbitrage::execute
WorkerAfter(worker, market_bbo, r) ==
    [ worker EXCEPT !.head = @ + 1,
                    !.log = Append(@, market_bbo),
                    !.transaction_list = r.transaction_list,
                    !.panicked = r.panicked ]

\* the outcome of the iteration for a tick the triangle does not hold
NotRouted(tl) ==
    [ transaction_list |-> tl, ret |-> <<>>, passes |-> <<>>,
      overflow_checks |-> overflow_checks, panicked |-> FALSE ]

\* one iteration of the loop of worker w: BusReader::recv, which waits for a
\* tick it has not read, then the routing test, execute and the send
WorkerRecv(w) ==
    /\ w <= Len(workers)
    /\ ~workers[w].panicked
    /\ workers[w].head < market_bbo_bus.tail
    /\ \E market_bbo \in { market_bbo_bus.ring[Slot(workers[w].head)][1] } :
       \E r \in IF Routed(workers[w].transaction_list, market_bbo)
                THEN ExecuteOutcomes(workers[w].transaction_list, market_bbo, qty_initial, TRUE)
                ELSE { NotRouted(workers[w].transaction_list) } :
          /\ workers' = [ workers EXCEPT ![w] = WorkerAfter(@, market_bbo, r) ]
          /\ profit_channel' =
                 IF r.ret # <<>> /\ ShouldSend(r.ret[1])
                 THEN ChannelSend(profit_channel, r.ret[1])
                 ELSE profit_channel
          /\ overflow_checks' = r.overflow_checks
    /\ UNCHANGED <<ordering, qty_initial, transaction_list, received, call, topologyVars,
                   panicked, market_bbo_bus, broadcasts, valid_message, startVars,
                   orderingVars, normalized>>

\* the workers of TransactionsList
WorkerIds == 1..Len(TransactionsList)

NextBus ==
    \/ Start
    \/ \E market_bbo \in BusTicks : Broadcast(market_bbo)
    \/ \E w \in WorkerIds : WorkerRecv(w)

SpecBus == InitBus /\ [][NextBus]_vars

\* BusReader::recv of worker w returns: the worker runs and the bus holds a
\* tick it has not read.  WorkerRecv(w) is enabled exactly then.
CanRecv(w) ==
    IF w <= Len(workers)
    THEN ~workers[w].panicked /\ workers[w].head < market_bbo_bus.tail
    ELSE FALSE

\* each worker is a thread of its own: a worker that can receive does.  This
\* is WF_vars(WorkerRecv(w)) with ENABLED WorkerRecv(w) written out as
\* CanRecv(w).
SpecBusLive ==
    SpecBus /\ \A w \in WorkerIds :
                  []<>(~CanRecv(w)) \/ []<><<WorkerRecv(w)>>_vars

\* ------------------------------------------------------------------------
\* One leg on its own: ArbitrageTransaction::normalize_qty
\* ------------------------------------------------------------------------

\* the step sizes the leg is given: none, the whole unit, and two decimal
\* grids, as f32::to_string prints them
GridSet == { "NaN", "1", "0.1", "0.01" }

\* the quantities passed to normalize_qty
GridValues ==
    { F32(<<n, 16>>) : n \in 0..MaxGridUnits } \cup { F32(<<n, 128>>) : n \in 0..MaxGridUnits }

\* the tick that gives the leg its step size
GridTick(grid) ==
    [ instrument |-> "BINANCE_ETH_BTC" ]
        @@ Market(One, One, Deep, Deep, NoMin, Max, grid, "NaN", 1)

\* ArbitrageTransaction::new and update: a leg with one of the step sizes
InitGrid ==
    /\ ordering = FALSE
    /\ qty_initial = One
    /\ \E grid \in GridSet :
          transaction_list =
              << Update(FromTransactionList(TransactionsList[1])[1], GridTick(grid)) >>
    /\ received = <<>>
    /\ call = <<>>
    /\ profit_channel = <<>>
    /\ NoBalance
    /\ Unset
    /\ InitExecutor

\* the call of ArbitrageTransaction::normalize_qty on the leg; the model
\* keeps the call before it and this one
NormalizeQtyCall(qty) ==
    /\ normalized' =
          Append(IF normalized = <<>> THEN <<>> ELSE << normalized[Len(normalized)] >>,
                 [ qty |-> qty, result |-> NormalizeQty(transaction_list[1], qty) ])
    /\ UNCHANGED <<workerVars, topologyVars, buildVars, busVars, valid_message, startVars,
                   orderingVars>>

\* the quantities of the calls: the values of GridValues and the results of
\* the calls made
NextGrid ==
    \E qty \in GridValues \cup { normalized[i].result : i \in 1..Len(normalized) } :
        NormalizeQtyCall(qty)

SpecGrid == InitGrid /\ [][NextGrid]_vars

\* ------------------------------------------------------------------------
\* The end of the executor: the drop of ArbitrageExecutor and of its Bus
\* ------------------------------------------------------------------------

\* the drop of the ArbitrageExecutor after start, which drops market_bbo_bus
\* and closes it.  Neither the executor nor the worker loop has another
\* signal: this is the one event that reaches a worker waiting in recv.
DropExecutor ==
    /\ workers # <<>>
    /\ ~market_bbo_bus.closed
    /\ market_bbo_bus' = [ market_bbo_bus EXCEPT !.closed = TRUE ]
    /\ UNCHANGED <<workerVars, topologyVars, buildVars, workers, broadcasts, valid_message,
                   startVars, orderingVars, normalized>>

\* the loop of worker w at market_bbo_receiver.recv().unwrap() on a closed
\* bus with nothing unread: recv returns Err and unwrap panics
WorkerRecvErr(w) ==
    /\ w <= Len(workers)
    /\ ~workers[w].panicked
    /\ workers[w].head = market_bbo_bus.tail
    /\ market_bbo_bus.closed
    /\ workers' = [ workers EXCEPT ![w].panicked = TRUE ]
    /\ UNCHANGED <<workerVars, topologyVars, buildVars, market_bbo_bus, broadcasts,
                   valid_message, startVars, orderingVars, normalized>>

NextShutdown ==
    \/ NextBus
    \/ DropExecutor
    \/ \E w \in WorkerIds : WorkerRecvErr(w)

SpecShutdown == InitBus /\ [][NextShutdown]_vars

\* ------------------------------------------------------------------------
\* ArbitrageExecutor::start with an account behind the ordering flag
\* ------------------------------------------------------------------------

\* what get_balance(start_asset) returns after update_balances: None, or the
\* free balance of the start asset, 0 or 6
BalanceSet == { <<>>, << Zero >>, << <<6, 1>> >> }

\* ArbitrageExecutor::new with either ordering flag and a qty_in, initialize,
\* and the first line of start: qty_initial = qty_in
InitStart ==
    /\ ordering \in BOOLEAN
    /\ qty_in \in QtyInSet
    /\ balance \in BalanceSet
    /\ qty_initial = qty_in
    /\ transaction_list = <<>>
    /\ received = <<>>
    /\ call = <<>>
    /\ profit_channel = <<>>
    /\ Unset
    /\ InitExecutor

SpecStart == InitStart /\ [][NextBus]_vars

\* ------------------------------------------------------------------------
\* The ordering thread behind the profit channel: ArbitrageOrdering::start
\* ------------------------------------------------------------------------

\* the feed: a shallow BINANCE_BTC_USDT book at 2 and deep books at 1 for the
\* other two instruments, in turn; from the third tick on the triangle that
\* sells BTC first returns a profit on every tick
SinkFeed ==
    << [ instrument |-> "BINANCE_BTC_USDT" ]
           @@ Market(<<2, 1>>, <<2, 1>>, <<1, 2>>, <<1, 2>>, NoMin, Max, "NaN", "NaN", 2),
       [ instrument |-> "BINANCE_ETH_USDT" ]
           @@ Market(One, One, Deep, Deep, NoMin, Max, "NaN", "NaN", 1),
       [ instrument |-> "BINANCE_ETH_BTC" ]
           @@ Market(One, One, Deep, Deep, NoMin, Max, "NaN", "NaN", 1) >>

\* the values of SLEEP_BETWEEN_TRANSACTIONS, as sequences of characters: not
\* set, "25", and "fast"
SleepValues == { <<>>, << <<"2", "5">> >>, << <<"f", "a", "s", "t">> >> }

\* str::parse::<u64>: Ok for a non-empty sequence of digits after an optional
\* +, Err otherwise.  The values of SleepValues are far below u64::MAX.
ParseU64(str) ==
    LET digits == IF str # <<>> /\ str[1] = "+" THEN Tail(str) ELSE str
        DigitValue(c) ==
            CASE c = "0" -> 0 [] c = "1" -> 1 [] c = "2" -> 2 [] c = "3" -> 3
              [] c = "4" -> 4 [] c = "5" -> 5 [] c = "6" -> 6 [] c = "7" -> 7
              [] c = "8" -> 8 [] OTHER -> 9
        RECURSIVE Value(_)
        Value(d) ==
            IF d = <<>> THEN 0
            ELSE 10 * Value(SubSeq(d, 1, Len(d) - 1)) + DigitValue(d[Len(d)])
    IN IF /\ digits # <<>>
          /\ \A i \in 1..Len(digits) :
                digits[i] \in { "0", "1", "2", "3", "4", "5", "6", "7", "8", "9" }
       THEN [ ok |-> TRUE, value |-> Value(digits) ]
       ELSE [ ok |-> FALSE, value |-> 0 ]

\* the sleep_duration after a leg is spawned: Duration::from_micros(10), or
\* the parsed variable; panicked when parse returns Err and unwrap panics
SleepDuration(variable) ==
    IF variable = <<>> THEN [ panicked |-> FALSE, micros |-> 10 ]
    ELSE [ panicked |-> ~ParseU64(variable[1]).ok, micros |-> ParseU64(variable[1]).value ]

\* ArbitrageExecutor::new, initialize and start with ordering on, in an
\* environment with one of the values of SLEEP_BETWEEN_TRANSACTIONS
InitSink ==
    /\ ordering = TRUE
    /\ qty_initial = One
    /\ transaction_list = <<>>
    /\ received = <<>>
    /\ call = <<>>
    /\ profit_channel = <<>>
    /\ NoBalance
    /\ sleep_between_transactions \in SleepValues
    /\ InitExecutor

\* the loop of ArbitrageOrdering::start at arbitrage_profit_receiver.recv():
\* the thread waits for a profit and takes the oldest
OrderingRecv ==
    /\ arbitrage_ordering.pc = "recv"
    /\ profit_channel # <<>>
    /\ profit_channel' = Tail(profit_channel)
    /\ arbitrage_ordering' =
          [ arbitrage_ordering EXCEPT !.pc = "lock",
                                      !.arbitrage_profit = << Head(profit_channel) >>,
                                      !.taken = @ + 1 ]
    /\ UNCHANGED <<ordering, qty_initial, transaction_list, received, call, topologyVars,
                   buildVars, busVars, valid_message, startVars,
                   sleep_between_transactions, normalized>>

\* the loop at thread_counter.lock().unwrap() and the test of the counter.
\* lock waits for the mutex; a poisoned mutex makes unwrap panic; a counter
\* other than 0 makes the loop continue, which drops the profit and the guard;
\* otherwise the loop keeps the guard for the rest of the iteration
OrderingLock ==
    /\ arbitrage_ordering.pc = "lock"
    /\ arbitrage_ordering.mutex = "free"
    /\ arbitrage_ordering' =
          IF arbitrage_ordering.poisoned
          THEN [ arbitrage_ordering EXCEPT !.pc = "panicked" ]
          ELSE IF arbitrage_ordering.thread_counter # 0
          THEN [ arbitrage_ordering EXCEPT !.pc = "recv",
                                           !.arbitrage_profit = <<>>,
                                           !.skipped = @ + 1 ]
          ELSE [ arbitrage_ordering EXCEPT !.pc = "legs",
                                           !.mutex = "start",
                                           !.t = 1 ]
    /\ UNCHANGED <<workerVars, topologyVars, buildVars, busVars, valid_message, startVars,
                   sleep_between_transactions, normalized>>

\* the ordering thread after the spawn of the thread of leg t, which waits
\* for the mutex, and the sleep.  The unwrap of a parse error unwinds the
\* thread: its guard is dropped while panicking, which poisons the mutex.
\* After the sleep comes the next leg, or the end of the iteration, which
\* drops the guard.
Spawned(o, duration) ==
    LET results == o.arbitrage_profit[1].transaction_result_list
        child == [ pc |-> "lock", transaction |-> results[o.t], profit |-> o.taken,
                   order |-> <<>> ]
    IN IF duration.panicked
       THEN [ o EXCEPT !.children = Append(@, child),
                       !.pc = "panicked", !.mutex = "free", !.poisoned = TRUE ]
       ELSE IF o.t = Len(results)
       THEN [ o EXCEPT !.children = Append(@, child),
                       !.pc = "recv", !.arbitrage_profit = <<>>, !.t = 0,
                       !.mutex = "free", !.sleeps = Append(@, duration.micros) ]
       ELSE [ o EXCEPT !.children = Append(@, child),
                       !.t = @ + 1, !.sleeps = Append(@, duration.micros) ]

\* one iteration of the loop over the results of the profit: thread::spawn
\* for leg t, the sleep_duration from the environment, thread::sleep
OrderingSpawn ==
    /\ arbitrage_ordering.pc = "legs"
    /\ arbitrage_ordering' =
          Spawned(arbitrage_ordering, SleepDuration(sleep_between_transactions))
    /\ UNCHANGED <<workerVars, topologyVars, buildVars, busVars, valid_message, startVars,
                   sleep_between_transactions, normalized>>

\* a spawned thread that goes on to its order without waiting for the mutex
ChildLockNoWait(c) ==
    /\ c <= Len(arbitrage_ordering.children)
    /\ arbitrage_ordering.children[c].pc = "lock"
    /\ arbitrage_ordering' =
          [ arbitrage_ordering EXCEPT !.children[c].pc = "order",
                                      !.mutex = "child",
                                      !.thread_counter = @ + 1 ]
    /\ UNCHANGED <<workerVars, topologyVars, buildVars, busVars, valid_message, startVars,
                   sleep_between_transactions, normalized>>

\* a spawned thread at thread_counter.lock().unwrap() and *num += 1: it waits
\* for the mutex, panics on a poisoned one, and keeps the guard
ChildLock(c) ==
    /\ c <= Len(arbitrage_ordering.children)
    /\ arbitrage_ordering.children[c].pc = "lock"
    /\ arbitrage_ordering.mutex = "free"
    /\ arbitrage_ordering' =
          IF arbitrage_ordering.poisoned
          THEN [ arbitrage_ordering EXCEPT !.children[c].pc = "panicked" ]
          ELSE [ arbitrage_ordering EXCEPT !.children[c].pc = "order",
                                           !.mutex = "child",
                                           !.thread_counter = @ + 1 ]
    /\ UNCHANGED <<workerVars, topologyVars, buildVars, busVars, valid_message, startVars,
                   sleep_between_transactions, normalized>>

\* the order a spawned thread submits for its result: limit_buy_fok for BUY,
\* limit_sell_fok for SELL, with exchange_code, qty_to_execute and price;
\* nothing for another operation
OrderOf(transaction) ==
    IF transaction.operation = "BUY"
    THEN << [ submit |-> "limit_buy_fok", symbol |-> transaction.exchange_code,
              qty |-> transaction.qty_to_execute, price |-> transaction.price ] >>
    ELSE IF transaction.operation = "SELL"
    THEN << [ submit |-> "limit_sell_fok", symbol |-> transaction.exchange_code,
              qty |-> transaction.qty_to_execute, price |-> transaction.price ] >>
    ELSE <<>>

\* a spawned thread from the submission to its end: the order, *num -= 1 on
\* either answer of the exchange, and the drop of the guard
ChildOrder(c) ==
    /\ c <= Len(arbitrage_ordering.children)
    /\ arbitrage_ordering.children[c].pc = "order"
    /\ arbitrage_ordering' =
          [ arbitrage_ordering EXCEPT
                !.children[c].pc = "done",
                !.children[c].order = OrderOf(arbitrage_ordering.children[c].transaction),
                !.mutex = "free",
                !.thread_counter = @ - 1 ]
    /\ UNCHANGED <<workerVars, topologyVars, buildVars, busVars, valid_message, startVars,
                   sleep_between_transactions, normalized>>

\* the threads the ordering thread can have spawned: three per profit
ChildIds == 1..(3 * MaxBroadcasts)

NextSink ==
    \/ Start
    \/ \E market_bbo \in { SinkFeed[(Len(broadcasts) % Len(SinkFeed)) + 1] } :
          Broadcast(market_bbo)
    \/ \E w \in WorkerIds : WorkerRecv(w)
    \/ OrderingRecv
    \/ OrderingLock
    \/ OrderingSpawn
    \/ \E c \in ChildIds : ChildLock(c)
    \/ \E c \in ChildIds : ChildOrder(c)

SpecSink == InitSink /\ [][NextSink]_vars

\* ------------------------------------------------------------------------
\* Two legs on their own: ArbitrageTransaction::new, update, is_valid
\* ------------------------------------------------------------------------

MinusOne == <<-1, 1>>

\* the prices and the quantities a tick gives a leg
LegPrices == { MinusOne, Zero, One, NaN }

LegQtys == { Zero, One }

\* the ticks the legs are updated with
LegTicks ==
    { [ instrument |-> "BINANCE_BTC_USDT" ]
          @@ Market(ask_price, bid_price, ask_qty, bid_qty, NoMin, Max, "NaN", "NaN", 1)
        : ask_price \in LegPrices, bid_price \in LegPrices,
          ask_qty \in LegQtys, bid_qty \in LegQtys }

\* ArbitrageTransaction::new for the first two legs of a triangle
InitLeg ==
    /\ ordering = FALSE
    /\ qty_initial = One
    /\ transaction_list = SubSeq(FromTransactionList(TransactionsList[1]), 1, 2)
    /\ received = <<>>
    /\ call = <<>>
    /\ profit_channel = <<>>
    /\ NoBalance
    /\ Unset
    /\ InitExecutor

\* the call of ArbitrageTransaction::update on leg i
UpdateCall(i, tick) ==
    /\ transaction_list' = [ transaction_list EXCEPT ![i] = Update(@, tick) ]
    /\ valid_message' = <<>>
    /\ UNCHANGED <<ordering, qty_initial, received, call, profit_channel,
                   topologyVars, buildVars, busVars, startVars, orderingVars, normalized>>

\* the call of ArbitrageTransaction::is_valid on each leg
IsValidCall ==
    /\ valid_message = <<>>
    /\ valid_message' = [ i \in 1..Len(transaction_list) |-> IsValid(transaction_list[i]) ]
    /\ UNCHANGED <<workerVars, topologyVars, buildVars, busVars, startVars,
                   orderingVars, normalized>>

NextLeg ==
    \/ \E i \in 1..2, tick \in LegTicks : UpdateCall(i, tick)
    \/ IsValidCall

SpecLeg == InitLeg /\ [][NextLeg]_vars

\* ------------------------------------------------------------------------
\* Properties
\* ------------------------------------------------------------------------

\* the last call of Arbitrage::execute was made with scale = s
CalledWithScale(s) == call # <<>> /\ call[1].passes[1].scale = s

\* the results of the first pass of the last call
FirstResults == call[1].passes[1].results

\* ask/bid price and ask/bid qty of a leg are all strictly positive
MarketFieldsPositive(t) ==
    /\ FGt(t.ask_price, Zero)
    /\ FGt(t.bid_price, Zero)
    /\ FGt(t.ask_qty, Zero)
    /\ FGt(t.bid_qty, Zero)

\* some first-pass result asks for more than the book offers
ExceedsDepth(results) ==
    \E k \in 1..Len(results) : FGt(results[k].qty_to_execute, results[k].market_qty)

\* C1: a call with scale = true whose first pass has three results, none of
\* them above its market_qty, returns Some(profit) built from those results.
C1_NoRescaleReturnsProfit ==
    (CalledWithScale(TRUE) /\ Len(FirstResults) = 3 /\ ~ExceedsDepth(FirstResults))
        => (call[1].ret # <<>>
            /\ call[1].ret[1].transaction_result_list = FirstResults)

\* C2: whatever the ticks and the value of scale, a call made while one of
\* the three legs has a zero or negative ask/bid price or qty returns None.
C2_NotReadyReturnsNone ==
    (call # <<>> /\ \E i \in 1..3 : ~MarketFieldsPositive(transaction_list[i]))
        => call[1].ret = <<>>

\* C2 witness: a call with scale = false made after every leg has ticked,
\* one of them with a malformed tick
C2_Witness ==
    /\ CalledWithScale(FALSE)
    /\ \A i \in 1..3 : transaction_list[i].ready
    /\ \E i \in 1..3 : ~MarketFieldsPositive(transaction_list[i])
    /\ call[1].ret = <<>>

\* the passes of the last call, outermost first
Passes == call[1].passes

\* the call ran the rescaled second pass
Rescaled == call # <<>> /\ Len(Passes) = 2

\* the call returned Some(profit)
ReturnedSome == call # <<>> /\ call[1].ret # <<>>

\* the leg results of the returned profit
Returned == call[1].ret[1].transaction_result_list

\* the ratio qty_to_execute / market_qty of a result
Ratio(r) == FDiv(r.qty_to_execute, r.market_qty)

\* the largest ratio among the results not valid for ordering, 0 without one
MaxRatio(results) ==
    LET R == { x \in { Ratio(results[k]) :
                         k \in { j \in 1..Len(results) : ~ResultIsValidOrdering(results[j]) } }
                     \cup { Zero } : ~IsNaN(x) }
    IN CHOOSE m \in R : \A x \in R : FLe(x, m)

\* C3: with scale = true and three first-pass results there is a second pass
\* exactly when the largest ratio m of the invalid results is above 1, which
\* is exactly when some result exceeds its market_qty; that pass runs on
\* qty_initial / m and what it yields is what the call returns.
C3_RescaleIffExceeds ==
    (CalledWithScale(TRUE) /\ Len(FirstResults) = 3) =>
        /\ Len(Passes) = 2 <=> FGt(MaxRatio(FirstResults), One)
        /\ Len(Passes) = 2 <=> ExceedsDepth(FirstResults)
        /\ Len(Passes) = 2 =>
              /\ Passes[2].qty_initial = FDiv(Passes[1].qty_initial, MaxRatio(FirstResults))
              /\ IF Len(Passes[2].results) = 3
                 THEN ReturnedSome /\ Returned = Passes[2].results
                 ELSE ~ReturnedSome

\* C3 witness: a rescaled call that returned a profit
C3_Witness ==
    /\ CalledWithScale(TRUE)
    /\ Rescaled
    /\ ReturnedSome
    /\ \E k \in 1..3 : ~ResultIsValidOrdering(FirstResults[k]) /\ FLe(Ratio(FirstResults[k]), One)

\* C4: a top-level call runs at most one rescaled pass, and runs it with
\* scale = false: the evaluation never reaches depth 2.
C4_DepthAtMostOne ==
    call # <<>> =>
        /\ Len(Passes) <= 2
        /\ \A k \in 2..Len(Passes) : Passes[k].scale = FALSE

\* C4 witness: a call that went through the rescaled pass
C4_Witness == CalledWithScale(TRUE) /\ Rescaled

\* no leg has a step or tick grid
GridsDisabled ==
    \A i \in 1..3 : transaction_list[i].step_size = "NaN" /\ transaction_list[i].tick_size = "NaN"

\* x <= y up to the rounding of the f32 operations between them:
\* x <= y * (1 + 32 * 2^-MantBits)
WithinRounding(x, y) ==
    x[1] * y[2] * 2^MantBits <= y[1] * x[2] * (2^MantBits + 32)

\* C5 as stated: without grids, every leg of the profit returned by a
\* rescaled call has qty_to_execute <= market_qty and the leg that had the
\* largest ratio has qty_to_execute = market_qty.
C5_ContractionExact ==
    (CalledWithScale(TRUE) /\ GridsDisabled /\ Rescaled /\ ReturnedSome) =>
        \A k \in 1..3 :
            /\ FLe(Returned[k].qty_to_execute, Returned[k].market_qty)
            /\ (~ResultIsValidOrdering(FirstResults[k])
                /\ Ratio(FirstResults[k]) = MaxRatio(FirstResults))
               => Returned[k].qty_to_execute = Returned[k].market_qty

\* C5 amended: without grids, every leg of the profit returned by a rescaled
\* call has qty_to_execute <= market_qty up to f32 rounding, and the leg that
\* had the largest ratio has qty_to_execute within f32 rounding of market_qty.
C5_ContractionRounded ==
    (CalledWithScale(TRUE) /\ GridsDisabled /\ Rescaled /\ ReturnedSome) =>
        \A k \in 1..3 :
            /\ WithinRounding(Returned[k].qty_to_execute, Returned[k].market_qty)
            /\ (~ResultIsValidOrdering(FirstResults[k])
                /\ Ratio(FirstResults[k]) = MaxRatio(FirstResults))
               => WithinRounding(Returned[k].market_qty, Returned[k].qty_to_execute)

\* C5 witness: a rescaled call without grids whose returned profit has a leg
\* above its market_qty
C5_Witness ==
    /\ CalledWithScale(TRUE)
    /\ GridsDisabled
    /\ Rescaled
    /\ ReturnedSome
    /\ \E k \in 1..3 : FGt(Returned[k].qty_to_execute, Returned[k].market_qty)

\* C6 as stated: no leg quantized by a step grid exceeds its market_qty in
\* the profit returned by a rescaled call.
C6_RescaleRespectsDepth ==
    (CalledWithScale(TRUE) /\ Rescaled /\ ReturnedSome) =>
        \A k \in 1..3 :
            Returned[k].step_size # "NaN"
                => ~FGt(Returned[k].qty_to_execute, Returned[k].market_qty)

\* C6 amended: with a step grid on some leg, the rescaled pass runs on a
\* smaller input than the first pass and asks on no leg for more than the
\* first pass did.
C6_RescaleNeverIncreases ==
    (CalledWithScale(TRUE) /\ Rescaled /\ ReturnedSome
     /\ \E k \in 1..3 : Returned[k].step_size # "NaN") =>
        /\ FLt(Passes[2].qty_initial, Passes[1].qty_initial)
        /\ \A k \in 1..3 :
              ~FGt(Returned[k].qty_to_execute, FirstResults[k].qty_to_execute)

\* C6 witness: a rescaled call whose returned profit still has a quantized
\* leg above its market_qty
C6_Witness ==
    /\ CalledWithScale(TRUE)
    /\ Rescaled
    /\ ReturnedSome
    /\ \E k \in 1..3 :
          /\ Returned[k].step_size # "NaN"
          /\ FGt(Returned[k].qty_to_execute, Returned[k].market_qty)

\* the instruments of the worker's triangle
LegInstruments == { transaction_list[i].instrument : i \in 1..3 }

\* the market fields cached by a leg are those of the tick
HoldsTick(t, market_bbo) ==
    /\ t.ready
    /\ t.ask_price = market_bbo.ask_price
    /\ t.bid_price = market_bbo.bid_price
    /\ t.ask_qty = market_bbo.ask_qty
    /\ t.bid_qty = market_bbo.bid_qty
    /\ t.min_qty = market_bbo.min_qty
    /\ t.max_qty = market_bbo.max_qty
    /\ t.step_size = market_bbo.step_size
    /\ t.tick_size = market_bbo.tick_size
    /\ t.tick_timestamp = market_bbo.marketdata_timestamp

\* C7: the worker calls execute on a received tick, which updates the legs of
\* that instrument, if and only if the tick's instrument is one of the
\* triangle's; any other tick leaves the legs and the profit channel as they
\* were.
C7_TickRouting ==
    /\ [](received # <<>> =>
            /\ call # <<>> <=> received[1].instrument \in LegInstruments
            /\ call # <<>> =>
                  \A i \in 1..3 :
                      transaction_list[i].instrument = received[1].instrument
                          => HoldsTick(transaction_list[i], received[1]))
    /\ [][(received' # <<>> /\ received'[1].instrument \notin LegInstruments)
              => (transaction_list' = transaction_list /\ profit_channel' = profit_channel)]_vars

\* C7 witness: a tick of a foreign instrument received, and not evaluated,
\* after a leg has ticked
C7_Witness ==
    /\ received # <<>>
    /\ received[1].instrument \notin LegInstruments
    /\ call = <<>>
    /\ \E i \in 1..3 : transaction_list[i].ready

\* the profit returned by the last call
ReturnedProfit == call[1].ret[1]

\* the last profit sent is p
Published(p) == profit_channel # <<>> /\ profit_channel[Len(profit_channel)] = p

\* C8 as stated: a returned profit above 0 is published, the validity gate
\* applying only when ordering is on.
C8_PositiveProfitPublished ==
    (ReturnedSome /\ FGt(GetProfit(ReturnedProfit), Zero)
     /\ (ordering => ProfitIsValidOrdering(ReturnedProfit)))
        => Published(ReturnedProfit)

\* C8 amended: a returned profit above 0 is published if and only if
\* ordering is on and the profit is valid for ordering; with ordering off
\* nothing is ever published.
C8_PublishedIffOrderingAndValid ==
    /\ (ReturnedSome /\ FGt(GetProfit(ReturnedProfit), Zero))
          => (Published(ReturnedProfit)
                <=> (ordering /\ ProfitIsValidOrdering(ReturnedProfit)))
    /\ ~ordering => profit_channel = <<>>

\* C8 witness: a positive, valid profit returned and published
C8_Witness ==
    /\ ReturnedSome
    /\ FGt(GetProfit(ReturnedProfit), Zero)
    /\ ordering
    /\ Published(ReturnedProfit)

\* C9: every profit on the profit channel has profit > 0.
C9_OnlyPositiveProfitsSent ==
    \A k \in 1..Len(profit_channel) : FGt(GetProfit(profit_channel[k]), Zero)

\* C9 witness: with ordering on, a valid profit of 0 or less returned and
\* not sent
C9_Witness ==
    /\ ReturnedSome
    /\ ordering
    /\ ProfitIsValidOrdering(ReturnedProfit)
    /\ FLe(GetProfit(ReturnedProfit), Zero)
    /\ profit_channel = <<>>

\* C10 as stated: with ordering on, a positive profit that is not valid for
\* ordering after the rescale is still sent on the profit channel.
C10_InvalidStillEmitted ==
    (ReturnedSome /\ Rescaled /\ ordering
     /\ FGt(GetProfit(ReturnedProfit), Zero)
     /\ ~ProfitIsValidOrdering(ReturnedProfit))
        => Published(ReturnedProfit)

\* C10 amended: a profit that is not valid for ordering is never sent: the
\* worker filters on validity and every profit on the channel is valid.
C10_OnlyValidProfitsSent ==
    /\ \A k \in 1..Len(profit_channel) : ProfitIsValidOrdering(profit_channel[k])
    /\ (ReturnedSome /\ ~ProfitIsValidOrdering(ReturnedProfit))
          => ~Published(ReturnedProfit)

\* C10 witness: with ordering on, a positive profit not valid for ordering
\* returned by a rescaled call and not sent
C10_Witness ==
    /\ ReturnedSome
    /\ Rescaled
    /\ ordering
    /\ FGt(GetProfit(ReturnedProfit), Zero)
    /\ ~ProfitIsValidOrdering(ReturnedProfit)
    /\ ~Published(ReturnedProfit)

\* the symbols of the universe
Universe == { config.symbol_list[i] : i \in 1..Len(config.symbol_list) }

\* the legs of every triangle of transactions_list
EmittedLegs ==
    { transactions_list[k][i] : k \in 1..Len(transactions_list), i \in 1..3 }

\* C11 as stated: every emitted triangle starts and ends on start_asset,
\* chains target to source, and uses only instruments of both lists.
C11_ClosureOnStartAsset ==
    \A k \in 1..Len(transactions_list) :
        /\ transactions_list[k][1].source = config.start_asset
        /\ transactions_list[k][3].target = config.start_asset
        /\ \A i \in 1..2 : transactions_list[k][i].target = transactions_list[k][i + 1].source
        /\ \A i \in 1..3 :
              /\ transactions_list[k][i].instrument \in config.database_instrument_list
              /\ transactions_list[k][i].instrument \in config.referencedata_instrument_list

\* C11 amended: every emitted triangle starts and ends on the exchange-scoped
\* id "{exchange}_{start_asset}" of the start asset, chains target to source,
\* and uses only instruments of both lists.
C11_ClosureOnStartAssetId ==
    \A k \in 1..Len(transactions_list) :
        /\ transactions_list[k][1].source = AssetId(config.exchange, config.start_asset)
        /\ transactions_list[k][3].target = AssetId(config.exchange, config.start_asset)
        /\ \A i \in 1..2 : transactions_list[k][i].target = transactions_list[k][i + 1].source
        /\ \A i \in 1..3 :
              /\ transactions_list[k][i].instrument \in config.database_instrument_list
              /\ transactions_list[k][i].instrument \in config.referencedata_instrument_list

\* C11 witness: initialize emitted two triangles while the reference data
\* lack an instrument of the database list
C11_Witness ==
    /\ initialized
    /\ Len(transactions_list) >= 2
    /\ \E x \in config.database_instrument_list : x \notin config.referencedata_instrument_list

\* the instrument the directed edge (a, b) resolves to: "{exchange}_{a}_{b}"
\* when the database lists it, else "{exchange}_{b}_{a}" when the database
\* lists that, else none
EdgeInstrument(a, b) ==
    IF InstrumentId(config.exchange, a, b) \in config.database_instrument_list
    THEN { InstrumentId(config.exchange, a, b) }
    ELSE IF InstrumentId(config.exchange, b, a) \in config.database_instrument_list
         THEN { InstrumentId(config.exchange, b, a) }
         ELSE {}

\* the edge (a, b) resolves to an instrument that the reference data list too
EdgeResolves(a, b) ==
    /\ EdgeInstrument(a, b) # {}
    /\ EdgeInstrument(a, b) \subseteq config.referencedata_instrument_list

\* the ordered triples of distinct symbols of the universe that begin with
\* start_asset and whose three edges resolve
ValidPermutations ==
    { p \in Universe \X Universe \X Universe :
        /\ p[1] # p[2] /\ p[2] # p[3] /\ p[1] # p[3]
        /\ p[1] = config.start_asset
        /\ EdgeResolves(p[1], p[2])
        /\ EdgeResolves(p[2], p[3])
        /\ EdgeResolves(p[3], p[1]) }

\* triangle T goes through the symbols of p in order
Follows(T, p) ==
    \A i \in 1..3 : T[i].source = AssetId(config.exchange, p[i])

\* some start_asset permutation of the universe has an edge in neither
\* direction in the database list: initialize left a permutation loop early
SomeBreak ==
    \E p \in Universe \X Universe \X Universe :
        /\ p[1] # p[2] /\ p[2] # p[3] /\ p[1] # p[3]
        /\ p[1] = config.start_asset
        /\ \/ EdgeInstrument(p[1], p[2]) = {}
           \/ EdgeInstrument(p[2], p[3]) = {}
           \/ EdgeInstrument(p[3], p[1]) = {}

\* C12: initialize emits each valid permutation exactly once and nothing
\* else, whatever permutations it abandons, and no triangle twice.
C12_TopologyExact ==
    initialized =>
        /\ \A p \in ValidPermutations :
              Cardinality({ k \in 1..Len(transactions_list) :
                              Follows(transactions_list[k], p) }) = 1
        /\ \A k \in 1..Len(transactions_list) :
              \E p \in ValidPermutations : Follows(transactions_list[k], p)
        /\ \A j, k \in 1..Len(transactions_list) :
              j # k => transactions_list[j] # transactions_list[k]

\* C12 witness: initialize emitted triangles although it left the
\* permutation loop of some combination early
C12_Witness ==
    /\ initialized
    /\ SomeBreak
    /\ Len(transactions_list) >= 2

\* the symbols a, b of the universe that leg t goes from and to
EdgeOf(t) ==
    { e \in Universe \X Universe :
        /\ t.source = AssetId(config.exchange, e[1])
        /\ t.target = AssetId(config.exchange, e[2]) }

\* C13: a leg for the edge (a, b) is a SELL of "{exchange}_{a}_{b}" with
\* exchange code "ab" when the database lists that instrument, else a BUY of
\* "{exchange}_{b}_{a}" with exchange code "ba"; so a leg is a SELL exactly
\* when its instrument is source/target, a BUY exactly when it is
\* target/source, and has no other side.
C13_LegSide ==
    \A t \in EmittedLegs :
        /\ EdgeOf(t) # {}
        /\ \A e \in EdgeOf(t) :
              /\ IF InstrumentId(config.exchange, e[1], e[2]) \in config.database_instrument_list
                 THEN /\ t.operation = "SELL"
                      /\ t.instrument = InstrumentId(config.exchange, e[1], e[2])
                      /\ t.exchange_code = ExchangeCode(e[1], e[2])
                 ELSE /\ t.operation = "BUY"
                      /\ t.instrument = InstrumentId(config.exchange, e[2], e[1])
                      /\ t.exchange_code = ExchangeCode(e[2], e[1])
              /\ t.operation = "SELL" <=> t.instrument = InstrumentId(config.exchange, e[1], e[2])
              /\ t.operation = "BUY" <=> t.instrument = InstrumentId(config.exchange, e[2], e[1])
        /\ t.operation \in { "BUY", "SELL" }

\* C13 witness: a triangle with a BUY and a SELL leg emitted from a database
\* list that holds an instrument in both directions
C13_Witness ==
    /\ initialized
    /\ { "BINANCE_ETH_BTC", "BINANCE_BTC_ETH" } \subseteq config.database_instrument_list
    /\ \E k \in 1..Len(transactions_list) :
          /\ \E i \in 1..3 : transactions_list[k][i].operation = "BUY"
          /\ \E i \in 1..3 : transactions_list[k][i].instrument = "BINANCE_BTC_ETH"

\* the ticks broadcast since worker w subscribed, as far as it has received
ReceivedSoFar(w) ==
    SubSeq(broadcasts, workers[w].subscribed_at + 1,
           workers[w].subscribed_at + Len(workers[w].log))

\* tick number n was broadcast after worker w subscribed
Owed(w, n) ==
    IF w <= Len(workers)
    THEN n > workers[w].subscribed_at /\ n <= Len(broadcasts)
    ELSE FALSE

\* worker w has received tick number n
Got(w, n) ==
    IF w <= Len(workers)
    THEN Len(workers[w].log) >= n - workers[w].subscribed_at
    ELSE FALSE

\* C14: what a worker has received is, tick for tick and in order, what was
\* broadcast from its subscription on (none twice, none skipped, none from
\* before the subscription), and every tick broadcast after the subscription
\* is eventually received.
C14_BusDelivery ==
    /\ [](\A w \in 1..Len(workers) : workers[w].log = ReceivedSoFar(w))
    /\ \A w \in WorkerIds : \A n \in 1..MaxBroadcasts :
          [](Owed(w, n) => <>Got(w, n))

\* C14 witness: a worker that subscribed after the first broadcast has
\* received two ticks while the other has received none
C14_Witness ==
    /\ workers # <<>>
    /\ workers[1].subscribed_at >= 1
    /\ Len(workers[1].log) >= 2
    /\ Len(workers[2].log) = 0

\* the feed has a tick left to pass to execute
FeedHasTick == Len(broadcasts) < MaxBroadcasts

\* some worker has BusLen unread ticks
SomeWorkerLags ==
    \E w \in 1..Len(workers) : market_bbo_bus.tail - workers[w].head >= BusLen

\* the ring still holds every tick worker w has not read
HoldsUnread(w) ==
    \A n \in workers[w].head..(market_bbo_bus.tail - 1) :
        market_bbo_bus.ring[Slot(n)] = << broadcasts[n + 1] >>

\* C15 as stated: the call of execute never waits, whatever a worker's lag.
C15_IngestNeverBlocks ==
    FeedHasTick => ENABLED (\E market_bbo \in BusTicks : Broadcast(market_bbo))

\* C15 amended: execute waits exactly while some worker has BusLen unread
\* ticks; no worker ever has more, and the ring keeps every unread tick of
\* every worker: nothing is dropped.
C15_IngestBlocksWhenFull ==
    /\ FeedHasTick =>
          (SomeWorkerLags <=> ~ENABLED (\E market_bbo \in BusTicks : Broadcast(market_bbo)))
    /\ \A w \in 1..Len(workers) :
          /\ market_bbo_bus.tail - workers[w].head <= BusLen
          /\ HoldsUnread(w)

\* C15 witness: one worker has BusLen unread ticks while the feed has a tick
\* to pass and the other worker has read everything
C15_Witness ==
    /\ FeedHasTick
    /\ workers # <<>>
    /\ market_bbo_bus.tail - workers[1].head = BusLen
    /\ workers[2].head = market_bbo_bus.tail

\* C16 as stated: whatever the fields of a tick, the worker does not abort:
\* its evaluation ends in Some or None and it goes on to the next tick (a
\* worker that has panicked takes no further tick).
C16_WorkerNeverPanics == ~panicked

\* ask_price, bid_price, ask_qty and bid_qty of leg t are strictly positive
AllPositive(t) ==
    /\ FGt(t.ask_price, Zero)
    /\ FGt(t.bid_price, Zero)
    /\ FGt(t.ask_qty, Zero)
    /\ FGt(t.bid_qty, Zero)

\* the error kind of leg t: the first violated check in the order ask price,
\* bid price, ask qty, bid qty
Kind(t) ==
    IF FLe(t.ask_price, Zero) THEN "InvalidAsk"
    ELSE IF FLe(t.bid_price, Zero) THEN "InvalidBid"
    ELSE IF FLe(t.ask_qty, Zero) THEN "InvalidAskQty"
    ELSE IF FLe(t.bid_qty, Zero) THEN "InvalidBidQty"
    ELSE "none"

\* C17 as stated: is_valid succeeds exactly when the four fields are strictly
\* positive; otherwise it fails, and the errors of two legs whose first
\* violated checks differ are different errors (the error tells the kind).
C17_IsValidKinds ==
    valid_message # <<>> =>
        /\ \A i \in 1..2 : valid_message[i].ok <=> AllPositive(transaction_list[i])
        /\ \A i, j \in 1..2 :
              (~valid_message[i].ok /\ ~valid_message[j].ok
                  /\ Kind(transaction_list[i]) # Kind(transaction_list[j]))
                    => valid_message[i] # valid_message[j]

\* the pass of Arbitrage::execute that ended the call
LastPass == Passes[Len(Passes)]

\* C18: the profit of a returned Profit is results[2].qty_out minus
\* results[0].qty_in, the results being those of the pass that produced it,
\* and results[0].qty_in is the input of that pass: qty_initial / m after a
\* rescale, qty_initial otherwise.
C18_ProfitIdentity ==
    ReturnedSome =>
        /\ Returned = LastPass.results
        /\ GetProfit(ReturnedProfit)
              = FSub(LastPass.results[3].qty_out, LastPass.results[1].qty_in)
        /\ LastPass.results[1].qty_in = LastPass.qty_initial
        /\ LastPass.qty_initial =
              IF Rescaled THEN FDiv(qty_initial, MaxRatio(FirstResults)) ELSE qty_initial

\* C18 witness: a rescaled call returned a profit that differs from
\* results[2].qty_out minus the original qty_initial
C18_Witness ==
    /\ ReturnedSome
    /\ Rescaled
    /\ ~IsNaN(GetProfit(ReturnedProfit))
    /\ GetProfit(ReturnedProfit) # FSub(Returned[3].qty_out, qty_initial)

\* result r is within its three bounds
WithinBounds(r) ==
    /\ FLe(r.min_qty, r.qty_to_execute)
    /\ FLe(r.qty_to_execute, r.max_qty)
    /\ FLe(r.qty_to_execute, r.market_qty)

\* C19: a returned Profit is valid for ordering exactly when each of its
\* three results has min_qty <= qty_to_execute <= max_qty and
\* qty_to_execute <= market_qty; one result outside one bound makes it invalid.
C19_ValidOrderingIffBounds ==
    ReturnedSome =>
        /\ Len(Returned) = 3
        /\ ProfitIsValidOrdering(ReturnedProfit) <=> \A i \in 1..3 : WithinBounds(Returned[i])
        /\ \A i \in 1..3 :
              \/ FGt(Returned[i].min_qty, Returned[i].qty_to_execute)
              \/ FGt(Returned[i].qty_to_execute, Returned[i].max_qty)
              \/ FGt(Returned[i].qty_to_execute, Returned[i].market_qty)
                 => ~ProfitIsValidOrdering(ReturnedProfit)

\* C19 witness: a returned Profit invalid for ordering through one result
\* that is below its min_qty and within its other two bounds, the other two
\* results being within all their bounds
C19_Witness ==
    /\ ReturnedSome
    /\ ~ProfitIsValidOrdering(ReturnedProfit)
    /\ \E i \in 1..3 :
          /\ FGt(Returned[i].min_qty, Returned[i].qty_to_execute)
          /\ FLe(Returned[i].qty_to_execute, Returned[i].max_qty)
          /\ FLe(Returned[i].qty_to_execute, Returned[i].market_qty)
          /\ \A j \in 1..3 : j # i => WithinBounds(Returned[j])

\* the results of every pass of the last call
PassResults ==
    UNION { { Passes[k].results[i] : i \in 1..Len(Passes[k].results) } : k \in 1..Len(Passes) }

\* the leg of the triangle that result r was executed on
LegOf(r) == CHOOSE t \in { transaction_list[i] : i \in 1..3 } : t.name = r.name

\* C20: every result of a BUY leg has price = the ask price rounded down to
\* the tick grid, qty_to_execute = qty_in / price rounded down to the step
\* grid, fee = qty_to_execute * fee rate, qty_out = qty_to_execute - fee, and
\* market_qty = the ask quantity of the leg.
C20_BuyLeg ==
    call # <<>> =>
        \A r \in PassResults :
            r.operation = "BUY" =>
                /\ r.price = NormalizePrice(LegOf(r), LegOf(r).ask_price)
                /\ r.qty_to_execute = NormalizeQty(LegOf(r), FDiv(r.qty_in, r.price))
                /\ r.fee = FMul(r.qty_to_execute, LegOf(r).trade_fee[1])
                /\ r.qty_out = FSub(r.qty_to_execute, r.fee)
                /\ r.market_qty = LegOf(r).ask_qty

\* C20 witness: a result of a BUY leg whose ask and bid quantities differ,
\* with a fee on a quantity within max_qty
C20_Witness ==
    /\ call # <<>>
    /\ \E r \in PassResults :
          /\ r.operation = "BUY"
          /\ LegOf(r).ask_qty # LegOf(r).bid_qty
          /\ FGt(r.fee, Zero)
          /\ FLe(r.qty_to_execute, r.max_qty)

\* C21: every result of a SELL leg has qty_to_execute = qty_in rounded down to
\* the step grid, price = the bid price rounded down to the tick grid, fee =
\* (qty_to_execute * price) * fee rate, taken on the proceeds, qty_out = the
\* proceeds - fee, and market_qty = the bid quantity of the leg.
C21_SellLeg ==
    call # <<>> =>
        \A r \in PassResults :
            r.operation = "SELL" =>
                /\ r.qty_to_execute = NormalizeQty(LegOf(r), r.qty_in)
                /\ r.price = NormalizePrice(LegOf(r), LegOf(r).bid_price)
                /\ r.fee = FMul(FMul(r.qty_to_execute, r.price), LegOf(r).trade_fee[1])
                /\ r.qty_out = FSub(FMul(r.qty_to_execute, r.price), r.fee)
                /\ r.market_qty = LegOf(r).bid_qty

\* C21 witness: a result of a SELL leg whose ask and bid quantities differ,
\* with a fee on proceeds that differ from the quantity sold
C21_Witness ==
    /\ call # <<>>
    /\ \E r \in PassResults :
          /\ r.operation = "SELL"
          /\ LegOf(r).ask_qty # LegOf(r).bid_qty
          /\ FGt(r.fee, Zero)
          /\ FMul(r.qty_to_execute, r.price) # r.qty_to_execute

\* the step size of the leg of SpecGrid
StepSize == transaction_list[1].step_size

\* d: the decimals of a grid, the length of its decimal string - 2
Decimals(grid) == Len(grid) - 2

\* the exact value r is an integer multiple of 10^-d
IsMultiple(r, d) == r[2] # 0 /\ (r[1] * 10^d) % r[2] = 0

\* r is trunc(x) for a finite x >= 0: an integer with r <= x < r + 1
IsTrunc(r, x) ==
    /\ r[2] = 1
    /\ r[1] * x[2] <= x[1]
    /\ x[1] < (r[1] + 1) * x[2]

\* a <= b up to one rounding of an f32 operation: a <= b * (1 + 2^(1 - MantBits))
LeUpToRounding(a, b) ==
    a[1] * b[2] * 2^(MantBits - 1) <= b[1] * a[2] * (2^(MantBits - 1) + 1)

Renormalized ==
    /\ Len(normalized) = 2
    /\ normalized[2].qty = normalized[1].result

\* C23: normalize_qty applied to a result of normalize_qty on the same leg
\* returns that result.
C23_Idempotent ==
    Renormalized => normalized[2].result = normalized[2].qty

\* C24: of two calls of normalize_qty on the same leg with quantities
\* 0 <= x <= y, the result for x is <= the result for y.
C24_Monotone ==
    \A i \in 1..Len(normalized), j \in 1..Len(normalized) :
        FLe(normalized[i].qty, normalized[j].qty) =>
            FLe(normalized[i].result, normalized[j].result)

\* C24 witness: two calls on a decimal grid with x < y that both round to a
\* value other than their argument, the results different
C24_Witness ==
    /\ StepSize \notin { "NaN", "1" }
    /\ Len(normalized) = 2
    /\ FLt(normalized[1].qty, normalized[2].qty)
    /\ normalized[1].result # normalized[1].qty
    /\ normalized[2].result # normalized[2].qty
    /\ FLt(normalized[1].result, normalized[2].result)

\* the delay the claim gives the environment: the value of the variable when
\* it is a sequence of digits, 10 otherwise
ClaimedSleepMicros ==
    IF sleep_between_transactions # <<>> /\ ParseU64(sleep_between_transactions[1]).ok
    THEN ParseU64(sleep_between_transactions[1]).value
    ELSE 10

\* C25: the ordering thread sleeps the value of SLEEP_BETWEEN_TRANSACTIONS in
\* microseconds after each leg when the variable is set and parses, 10
\* microseconds when it is unset or does not parse, and is not stopped by a
\* value that does not parse.
C25_SleepFromEnvironment ==
    /\ \A i \in 1..Len(arbitrage_ordering.sleeps) :
          arbitrage_ordering.sleeps[i] = ClaimedSleepMicros
    /\ (arbitrage_ordering.taken > 0 /\ arbitrage_ordering.pc = "recv")
           => arbitrage_ordering.sleeps # <<>>
    /\ arbitrage_ordering.pc # "panicked"

\* worker w takes a step of its loop
StepOf(w) ==
    IF w <= Len(workers) THEN workers'[w].head = workers[w].head + 1 ELSE FALSE

\* the profits the iteration of worker w on the tick at its head sends
SentBy(w) ==
    IF Routed(workers[w].transaction_list, market_bbo_bus.ring[Slot(workers[w].head)][1])
    THEN { r.ret[1] : r \in { o \in ExecuteOutcomes(workers[w].transaction_list,
                                      market_bbo_bus.ring[Slot(workers[w].head)][1],
                                      qty_initial, TRUE) :
                                  IF o.ret # <<>> THEN ShouldSend(o.ret[1]) ELSE FALSE } }
    ELSE {}

\* C27: an iteration of a worker that sends a profit queues it when the
\* ordering thread is alive, in whatever state that thread is, and leaves the
\* channel as it is when the thread is gone; in both cases the worker has not
\* panicked and has moved on to its next tick.
C27_SendNeverBlocks ==
    [][ \A w \in WorkerIds :
            StepOf(w) =>
                /\ ~workers'[w].panicked
                /\ IF SentBy(w) = {} \/ ~Connected
                   THEN profit_channel' = profit_channel
                   ELSE \E p \in SentBy(w) : profit_channel' = Append(profit_channel, p) ]_vars

\* worker w has evaluated four ticks of which the first three filled its
\* triangle, and its evaluation of the fourth returns a profit to send
SentTwice(w) ==
    IF w <= Len(workers)
    THEN /\ Len(workers[w].log) = 4
         /\ Cardinality({ workers[w].log[i].instrument : i \in 1..3 }) = 3
         /\ ~workers[w].panicked
         /\ \E o \in ExecuteOutcomes(workers[w].transaction_list, workers[w].log[4],
                                     qty_initial, TRUE) :
               IF o.ret # <<>> THEN ShouldSend(o.ret[1]) ELSE FALSE
    ELSE FALSE

\* C27 witness: the ordering thread took the first profit of a worker and
\* panicked, the worker sent a second profit after that, which is in no
\* channel, and has gone on to the end of the feed
C27_Witness ==
    /\ ~Connected
    /\ arbitrage_ordering.taken = 1
    /\ profit_channel = <<>>
    /\ \E w \in WorkerIds : SentTwice(w)

\* the threads the ordering thread spawned for the n-th profit it received
ChildrenOf(n) ==
    { c \in 1..Len(arbitrage_ordering.children) : arbitrage_ordering.children[c].profit = n }

\* nothing is in flight in the ordering thread: it waits for a profit that
\* has not been sent, or has panicked, and no spawned thread is still to run
Quiescent ==
    /\ \/ arbitrage_ordering.pc = "recv" /\ profit_channel = <<>>
       \/ arbitrage_ordering.pc = "panicked"
    /\ \A c \in 1..Len(arbitrage_ordering.children) :
          arbitrage_ordering.children[c].pc \in { "done", "panicked" }

\* the thread of a result has submitted the order of that result
Submitted(child) ==
    /\ child.pc = "done"
    /\ Len(child.order) = 1
    /\ child.order[1].submit =
          (IF child.transaction.operation = "BUY" THEN "limit_buy_fok" ELSE "limit_sell_fok")
    /\ child.transaction.operation \in { "BUY", "SELL" }
    /\ child.order[1].symbol = child.transaction.exchange_code
    /\ child.order[1].price = child.transaction.price
    /\ child.order[1].qty = child.transaction.qty_to_execute

\* C29: the ordering thread never passes over a profit it received, and once
\* nothing is in flight every profit it received has exactly three submitted
\* orders, one per result, a fill-or-kill limit buy for BUY and limit sell for
\* SELL with the exchange_code, price and qty_to_execute of the result.
C29_SinkContract ==
    /\ arbitrage_ordering.skipped = 0
    /\ Quiescent =>
          \A n \in 1..arbitrage_ordering.taken :
              /\ Cardinality(ChildrenOf(n)) = 3
              /\ Cardinality({ arbitrage_ordering.children[c].transaction.name
                                   : c \in ChildrenOf(n) }) = 3
              /\ \A c \in ChildrenOf(n) : Submitted(arbitrage_ordering.children[c])

\* C26: the qty_initial start hands to the workers is the configured qty_in,
\* whatever the ordering flag and the balance of the start asset.
C26_QtyInitialIsQtyIn ==
    workers # <<>> => qty_initial = qty_in

\* the signal that ends the executor has been raised
ShutdownRaised == market_bbo_bus.closed

\* C28: once the shutdown is raised, every worker that stops has exited
\* cleanly: none ends in a panic.
C28_CooperativeShutdown ==
    ShutdownRaised => \A w \in 1..Len(workers) : ~workers[w].panicked

\* the names of the legs of a triangle
LegNames(tl) == [ i \in 1..Len(tl) |-> tl[i].name ]

\* after start there is one worker per triangle, worker k on triangle k
OneWorkerPerTriangle ==
    workers # <<>> =>
        /\ Len(workers) = Len(transactions_list)
        /\ \A k \in 1..Len(workers) :
              LegNames(workers[k].transaction_list)
                  = LegNames(FromTransactionList(transactions_list[k]))

\* the legs of worker w change in this step
LegsTouched(w) ==
    IF w <= Len(workers)
    THEN workers'[w].transaction_list # workers[w].transaction_list
    ELSE FALSE

\* a step of worker w takes exactly the tick at its head and leaves the legs
\* as a whole call of Arbitrage::execute on that tick leaves them: every leg
\* of the tick's instrument holds the tick
WholeIteration(w) ==
    /\ workers'[w].log =
          Append(workers[w].log, market_bbo_bus.ring[Slot(workers[w].head)][1])
    /\ \A i \in 1..Len(workers'[w].transaction_list) :
          workers'[w].transaction_list[i] =
              Ticked(workers[w].transaction_list[i],
                     market_bbo_bus.ring[Slot(workers[w].head)][1])

\* C30: after start there is exactly one worker per triangle; the legs of a
\* triangle change only in a step of its own worker, which leaves every other
\* worker as it was; and each step of a worker is the whole update and
\* evaluation of one tick, the next tick being received in a later step.
C30_OneWorkerPerTriangle ==
    /\ []OneWorkerPerTriangle
    /\ [][ \A w \in WorkerIds :
               /\ LegsTouched(w) =>
                      /\ StepOf(w)
                      /\ \A v \in WorkerIds \ {w} :
                             IF v <= Len(workers) THEN workers'[v] = workers[v] ELSE TRUE
               /\ StepOf(w) => WholeIteration(w) ]_vars

\* C30 witness: both workers have evaluated a tick of an instrument that
\* both triangles hold, each on its own legs
C30_Witness ==
    /\ Len(workers) = 2
    /\ \A w \in 1..Len(workers) :
          /\ workers[w].log # <<>>
          /\ \E i \in 1..Len(workers[w].transaction_list) :
                workers[w].transaction_list[i].tick_timestamp
                    = workers[w].log[Len(workers[w].log)].marketdata_timestamp
                /\ workers[w].transaction_list[i].instrument
                    = workers[w].log[Len(workers[w].log)].instrument
    /\ LegNames(workers[1].transaction_list) # LegNames(workers[2].transaction_list)

\* the market fields a leg caches
Cached(t) ==
    [ ask_price |-> t.ask_price, bid_price |-> t.bid_price,
      ask_qty |-> t.ask_qty, bid_qty |-> t.bid_qty,
      min_qty |-> t.min_qty, max_qty |-> t.max_qty,
      min_price |-> t.min_price, max_price |-> t.max_price,
      step_size |-> t.step_size, tick_size |-> t.tick_size,
      tick_timestamp |-> t.tick_timestamp ]

\* the same fields as a tick carries them
Carried(tick) ==
    [ ask_price |-> tick.ask_price, bid_price |-> tick.bid_price,
      ask_qty |-> tick.ask_qty, bid_qty |-> tick.bid_qty,
      min_qty |-> tick.min_qty, max_qty |-> tick.max_qty,
      min_price |-> tick.min_price, max_price |-> tick.max_price,
      step_size |-> tick.step_size, tick_size |-> tick.tick_size,
      tick_timestamp |-> tick.marketdata_timestamp ]

\* C31: last writer wins.  On every tick the triangle receives, each leg of
\* the tick's instrument ends with the market fields of that tick, older
\* timestamp or malformed values or not, and each other leg keeps the fields
\* it had; so after any sequence of ticks a leg caches the latest tick of its
\* instrument.
C31_LastWriterWins ==
    [][ \A i \in 1..Len(transaction_list) :
           IF transaction_list[i].instrument = received'[1].instrument
           THEN Cached(transaction_list'[i]) = Carried(received'[1])
           ELSE Cached(transaction_list'[i]) = Cached(transaction_list[i]) ]_vars

\* a leg caches a malformed tick (ask price 0) it has just received
C31_Witness ==
    /\ received # <<>>
    /\ received[1].ask_price = Zero
    /\ \E i \in 1..Len(transaction_list) :
          /\ transaction_list[i].instrument = received[1].instrument
          /\ Cached(transaction_list[i]) = Carried(received[1])

\* the market fields of a leg no tick has reached
Zeroed ==
    [ ask_price |-> Zero, bid_price |-> Zero, ask_qty |-> Zero, bid_qty |-> Zero,
      min_qty |-> Zero, max_qty |-> Zero, min_price |-> Zero, max_price |-> Zero,
      step_size |-> "0", tick_size |-> "0", tick_timestamp |-> 0 ]

\* one of the four checked fields of the leg is 0 or negative
Malformed(t) ==
    \/ FLe(t.ask_price, Zero) \/ FLe(t.bid_price, Zero)
    \/ FLe(t.ask_qty, Zero) \/ FLe(t.bid_qty, Zero)

\* the four checked fields of the leg are strictly positive
WellFormed(t) ==
    /\ FGt(t.ask_price, Zero) /\ FGt(t.bid_price, Zero)
    /\ FGt(t.ask_qty, Zero) /\ FGt(t.bid_qty, Zero)

\* a leg before its first update is not ready, zeroed and fails is_valid; a
\* ready leg fails is_valid while it caches a malformed tick and passes it
\* while it caches a well-formed one
ReadyStates ==
    \A i \in 1..Len(transaction_list) :
        LET t == transaction_list[i]
        IN /\ ~t.ready => Cached(t) = Zeroed /\ ~IsValid(t).ok
           /\ Malformed(t) => ~IsValid(t).ok
           /\ WellFormed(t) => IsValid(t).ok
           /\ valid_message # <<>> => valid_message[i] = IsValid(t)

\* an update sets ready and no operation sets it back
ReadySteps ==
    \A i \in 1..Len(transaction_list) :
        /\ transaction_list[i].ready => transaction_list'[i].ready
        /\ transaction_list'[i] # transaction_list[i] => transaction_list'[i].ready

\* C32: leg readiness.  A leg is built not ready with zeroed market fields
\* and fails is_valid; its first update sets ready and nothing sets it back;
\* a malformed tick (a checked field 0 or negative) makes is_valid fail and
\* leaves ready set; a well-formed tick makes is_valid succeed again.
C32_Readiness == []ReadyStates /\ [][ReadySteps]_vars

\* a ready leg that caches a malformed tick and has failed is_valid, next to
\* a ready leg that caches a well-formed tick and has passed it
C32_Witness ==
    /\ valid_message # <<>>
    /\ transaction_list[1].ready /\ Malformed(transaction_list[1])
    /\ ~valid_message[1].ok
    /\ transaction_list[2].ready /\ WellFormed(transaction_list[2])
    /\ valid_message[2].ok

\* leg i after the call is leg i before it with the market fields of the
\* tick and ready set
TakesTick(i, tick) ==
    /\ Cached(transaction_list'[i]) = Carried(tick)
    /\ transaction_list'[i].ready
    /\ transaction_list'[i] =
          [ transaction_list'[i] EXCEPT !.name = transaction_list[i].name,
                                        !.source = transaction_list[i].source,
                                        !.target = transaction_list[i].target,
                                        !.operation = transaction_list[i].operation,
                                        !.instrument = transaction_list[i].instrument,
                                        !.exchange_code = transaction_list[i].exchange_code,
                                        !.trade_fee = transaction_list[i].trade_fee ]

C34_ThreeChainedResults ==
    ReturnedSome =>
        /\ Len(Returned) = 3
        /\ \A i \in 1..3 :
              /\ Returned[i].name = transaction_list[i].name
              /\ Returned[i] = TransactionExecute(transaction_list[i], Returned[i].qty_in)
        /\ Returned[2].qty_in = Returned[1].qty_out
        /\ Returned[3].qty_in = Returned[2].qty_out

\* a profit returned by the rescaled pass whose legs change the quantity
C34_Witness ==
    /\ ReturnedSome
    /\ Rescaled
    /\ overflow_checks = "unset"
    /\ Returned[1].qty_out # Returned[1].qty_in
    /\ Returned[2].qty_out # Returned[2].qty_in
    /\ Returned[2].qty_out # Returned[1].qty_in

\* C35 as stated: a call with scale whose first pass produced three results
\* with m > 1 returns Some, and a call without scale returns Some whenever
\* its three legs pass is_valid, valid for ordering or not.
C35_SecondPassNeverFails ==
    call # <<>> =>
        /\ ( /\ CalledWithScale(TRUE)
             /\ Len(FirstResults) = 3
             /\ FGt(MaxRatio(FirstResults), One) ) => ReturnedSome
        /\ ( /\ CalledWithScale(FALSE)
             /\ \A i \in 1..3 : IsValid(transaction_list[i]).ok ) => ReturnedSome

\* the ordered triples of distinct symbols of the universe that begin with
\* start_asset
StartPermutations ==
    { p \in Universe \X Universe \X Universe :
        /\ p[1] # p[2] /\ p[2] # p[3] /\ p[1] # p[3]
        /\ p[1] = config.start_asset }

\* initialize emitted the triangle through the symbols of p
Emitted(p) == \E k \in 1..Len(transactions_list) : Follows(transactions_list[k], p)

\* the same triangle walked the other way round
Mirror(p) == <<p[1], p[3], p[2]>>

\* the triangles emitted on the three symbols of p
TrianglesOn(p) ==
    { k \in 1..Len(transactions_list) :
        \E q \in StartPermutations :
            /\ { q[1], q[2], q[3] } = { p[1], p[2], p[3] }
            /\ Follows(transactions_list[k], q) }

\* a universe without the start asset or with fewer than 3 assets yields no
\* triangle
NoneWithoutStart ==
    (config.start_asset \notin Universe \/ Cardinality(Universe) < 3)
        => transactions_list = <<>>

\* C36 as stated: whenever start->X->Y->start is emitted so is
\* start->Y->X->start, each 3-subset with the start asset contributes 0 or 2
\* triangles, and a universe without the start asset or with fewer than 3
\* assets yields none.
C36_MirroredPairs ==
    initialized =>
        /\ \A p \in StartPermutations :
              /\ Emitted(p) => Emitted(Mirror(p))
              /\ Cardinality(TrianglesOn(p)) \in { 0, 2 }
        /\ NoneWithoutStart

\* the database list holds an instrument for two symbols of p in both
\* directions
ListedBothWays(p) ==
    \E a, b \in { p[1], p[2], p[3] } :
        /\ a # b
        /\ InstrumentId(config.exchange, a, b) \in config.database_instrument_list
        /\ InstrumentId(config.exchange, b, a) \in config.database_instrument_list

\* C36 amended: a 3-subset with the start asset contributes 0, 1 or 2
\* triangles; an emitted triangle comes with its mirror, and the subset
\* contributes 0 or 2, when the database list holds no pair of the subset in
\* both directions; a universe without the start asset or with fewer than 3
\* assets yields none.
C36_MirroredUnlessBothWays ==
    initialized =>
        /\ \A p \in StartPermutations :
              /\ Cardinality(TrianglesOn(p)) \in { 0, 1, 2 }
              /\ ~ListedBothWays(p) =>
                    /\ Emitted(p) => Emitted(Mirror(p))
                    /\ Cardinality(TrianglesOn(p)) \in { 0, 2 }
        /\ NoneWithoutStart

\* a triangle and its mirror emitted from a database list that holds no pair
\* of theirs in both directions, next to a triangle emitted without its
\* mirror
C36_Witness ==
    /\ initialized
    /\ \E p \in StartPermutations :
          ~ListedBothWays(p) /\ Emitted(p) /\ Emitted(Mirror(p))
    /\ \E p \in StartPermutations :
          ListedBothWays(p) /\ Emitted(p) /\ ~Emitted(Mirror(p))

\* the spawned threads whose order submission is in flight
InFlight ==
    { c \in 1..Len(arbitrage_ordering.children) :
        arbitrage_ordering.children[c].pc = "order" }

\* at most one submission is in flight, by the thread that holds the mutex
\* with the counter at 1; none while the receive loop holds the mutex; the
\* counter is 0 whenever the mutex is not held
OneInFlight ==
    /\ Cardinality(InFlight) <= 1
    /\ InFlight # {} =>
          arbitrage_ordering.mutex = "child" /\ arbitrage_ordering.thread_counter = 1
    /\ arbitrage_ordering.mutex = "start" => InFlight = {}
    /\ arbitrage_ordering.mutex # "child" => arbitrage_ordering.thread_counter = 0

\* the counter changes only by the increment of a thread that takes the free
\* mutex and the decrement of the thread that gives it back
CounterInCriticalSection ==
    arbitrage_ordering'.thread_counter # arbitrage_ordering.thread_counter =>
        \/ /\ arbitrage_ordering'.thread_counter = arbitrage_ordering.thread_counter + 1
           /\ arbitrage_ordering.mutex = "free"
           /\ arbitrage_ordering'.mutex = "child"
        \/ /\ arbitrage_ordering'.thread_counter = arbitrage_ordering.thread_counter - 1
           /\ arbitrage_ordering.mutex = "child"
           /\ arbitrage_ordering'.mutex = "free"

\* C37: mutual exclusion in the ordering sink.  Across the spawned threads
\* and the receive loop at most one order submission is in flight at any
\* time, and the counter is 0 whenever the mutex is not held: each thread
\* increments and decrements it in one critical section around its order.
C37_MutualExclusion == []OneInFlight /\ [][CounterInCriticalSection]_vars

\* one thread submits its order while another thread of the same profit and
\* the receive loop, holding the next profit, both wait for the mutex
C37_Witness ==
    /\ InFlight # {}
    /\ arbitrage_ordering.pc = "lock"
    /\ \E c \in 1..Len(arbitrage_ordering.children) :
          /\ arbitrage_ordering.children[c].pc = "lock"
          /\ \E d \in InFlight :
                arbitrage_ordering.children[d].profit = arbitrage_ordering.children[c].profit

\* the spawned thread has begun the submission of its order
Begun(c) == arbitrage_ordering.children[c].pc \in { "order", "done" }

\* C38 as stated: the orders are submitted in the order the threads were
\* spawned, which is leg 0, leg 1, leg 2 of a profit and profit after profit:
\* when a thread has begun its submission, every thread spawned before it
\* (an earlier leg of its profit, or a leg of an earlier profit) has finished
\* its own, under every interleaving.  (The sleep is made by the receive loop
\* between two spawns, while it holds the mutex the spawned threads wait for.)
C38_SubmittedInLegOrder ==
    \A c, d \in 1..Len(arbitrage_ordering.children) :
        (d < c /\ Begun(c)) => arbitrage_ordering.children[d].pc = "done"

============================================================================
